---- MODULE Spec2Model ----
(***************************************************************************)
(* A model of the `live` configuration library.                            *)
(*                                                                         *)
(*   Spec     the atomic Store (holder/store/*.rs) driven by concurrent    *)
(*            client threads, one atomic memory access per step: the       *)
(*            fetch_add on `version`, the load and the compare-and-set of   *)
(*            ArcSwap::rcu, the send on the broadcast channel.              *)
(*   SpecDir  LiveDir controllers (controller/dir.rs) scanning their       *)
(*            directories into one shared Store, one step per await point. *)
(*                                                                         *)
(* Meta.loaded_at (Instant::now()) is left out: nothing reads it.          *)
(* An Arc<T> is modelled by [arc, data]: `arc` is the identity of the      *)
(* allocation (Arc::new is called once per allocated version, so the       *)
(* version serves as the identity) and `data` the payload T.               *)
(***************************************************************************)
EXTENDS Integers, Sequences, FiniteSets, TLC

\* ---------------------------------------------------------------- bounds
NumKeys == 2
NumThreads == 2
NumDirs == 2
MaxScans == 3
MaxChanges == 1

Keys == 1..NumKeys
Threads == 1..NumThreads
Dirs == 1..NumDirs
\* One scan task per LiveDir: its load()/reload() calls and the scans of
\* its watch task, which run one after the other.
Tasks == Dirs

\* ----------------------------------------------------------------- types
\* holder/policy.rs
Removable == "Removable"
Persistent == "Persistent"
UnloadPolicy == {Removable, Persistent}

\* Option<T>
None == [some |-> FALSE]
Some(x) == [some |-> TRUE, val |-> x]

\* HashMap::new()
EmptyMap == [k \in {} |-> None]

\* holder/meta.rs
Meta(source, version, policy) ==
    [source |-> source, version |-> version, policy |-> policy]

\* holder/entry.rs
Entry(data, source, version, policy) ==
    [value |-> [arc |-> version, data |-> data],
     meta |-> Meta(source, version, policy)]

\* HashMap::get
MapGet(map, key) == IF key \in DOMAIN map THEN Some(map[key]) ELSE None

\* HashMap::insert on a clone of `map`
MapInsert(map, key, entry) ==
    [k \in DOMAIN map \cup {key} |-> IF k = key THEN entry ELSE map[k]]

\* HashMap::remove on a clone of `map`
MapRemove(map, key) == [k \in DOMAIN map \ {key} |-> map[k]]

\* holder/error.rs
ErrPersistentRemoval(key) == [tag |-> "PersistentRemoval", key |-> key]
ErrNotFound(key) == [tag |-> "NotFound", key |-> key]
ErrConcurrentlyRemoved(key) == [tag |-> "ConcurrentlyRemoved", key |-> key]
Ok(v) == [tag |-> "Ok", val |-> v]

\* holder/event.rs
EvLoaded(key, value, meta) ==
    [type |-> "Loaded", key |-> key, value |-> value, meta |-> meta]
EvUpdated(key, old, new, meta) ==
    [type |-> "Updated", key |-> key, old |-> old, new |-> new, meta |-> meta]
EvRemoved(key, value) == [type |-> "Removed", key |-> key, value |-> value]
EvRetainedAsRemoved(key, error) ==
    [type |-> "Removed", key |-> key, value |-> error]
EvRetained(key, error) == [type |-> "Retained", key |-> key, error |-> error]

\* A file or directory name: Name(FALSE, k) is "k.json", Name(TRUE, k) is
\* ".k.json".
Name(dot, stem) == [dot |-> dot, stem |-> stem]

\* name.starts_with('.')
StartsWithDot(name) == name.dot

\* KeyPattern::extract for the Identity pattern: the name without its last
\* extension. "k.json" gives the key k and ".k.json" the key ".k", which
\* is written NumKeys + k.
Extract(name) == IF name.dot THEN NumKeys + name.stem ELSE name.stem

\* All orders in which a HashMap may iterate over the keys in S.
RECURSIVE Orders(_)
Orders(S) ==
    IF S = {} THEN {<<>>}
    ELSE UNION {{<<k>> \o o : o \in Orders(S \ {k})} : k \in S}

\* ----------------------------------------------------------------- state
VARIABLES
    inner,      \* Store.inner: the published map and the identity of its Arc
    version,    \* Store.version
    events,     \* everything sent on Store.events, in order
    hist,       \* history: every publication to `inner`, in order
    allocs,     \* history: every version handed out by fetch_add, in order
    pc,         \* per thread: the next atomic step of its call
    op,         \* per thread: the call and its arguments
    loc,        \* per thread: the call's local variables
    ret,        \* per thread: what its last call returned
    fs,         \* per directory: whether it exists, and its files
    dirPolicy,  \* per LiveDir: LiveDir.policy, or that it is a clone
    owned,      \* per LiveDir: LiveDir.owned_keys
    lock,       \* per LiveDir: the task holding owned_keys.write(), or 0
    sc,         \* per scan task: the locals of do_scan and its position
    scans,      \* number of scans started
    changes,    \* number of changes made to the directories
    loaded,     \* history, per LiveDir: the keys it has loaded with Ok
    wcfg,       \* the Watcher: its Target, root_path and Config
    pending,    \* process_events: the debouncer's `pending` map
    sent,       \* history: every Event sent on the Watcher's user_tx
    wtime,      \* per path: time since its last raw event and last emission
    raw,        \* the number of raw events handled, and the last one
    rx,         \* the watch task's broadcast::Receiver
    wt          \* the controller's watch task and its WatchState

storeVars == <<inner, version, events, hist, allocs>>
threadVars == <<pc, op, loc, ret>>
dirVars == <<fs, dirPolicy, owned, lock, sc, scans, changes, loaded>>
watchVars == <<wcfg, pending, sent, wtime, raw, rx, wt>>
vars == <<inner, version, events, hist, allocs, pc, op, loc, ret,
          fs, dirPolicy, owned, lock, sc, scans, changes, loaded,
          wcfg, pending, sent, wtime, raw, rx, wt>>

\* A clone of LiveDir 1 shares its path, policy and owned_keys: its scan
\* task works on the fields of LiveDir 1.
CloneOfFirst == "CloneOfFirst"
DirOf(s) == IF dirPolicy[s] = CloneOfFirst THEN 1 ELSE s

\* ------------------------------------------------------- Store: the code
\* Store::get with the Persistent check of remove applied to reads.
GetSkipsPersistent(snapshot, key) ==
    IF key \in DOMAIN snapshot /\ snapshot[key].meta.policy # Persistent
    THEN Some(snapshot[key].value) ELSE None

\* Store::get on a loaded snapshot
Get(snapshot, key) ==
    IF key \in DOMAIN snapshot THEN Some(snapshot[key].value) ELSE None

\* Store::get_meta on a loaded snapshot
GetMeta(snapshot, key) ==
    IF key \in DOMAIN snapshot THEN Some(snapshot[key].meta) ELSE None

\* The version taken without the `+ 1`: the value fetch_add returns.
NextVersionOld(v) == v

\* The version a writer takes: fetch_add(1, SeqCst) + 1, for the counter
\* value `v` that fetch_add returns.
NextVersion(v) == v + 1

\* The closure of insert's rcu: the map to publish over `map`.
InsertClosure(map, key, new_entry) == MapInsert(map, key, new_entry)

\* The closure of remove's rcu: the map to publish over `map`.
RemoveClosure(map, key) == MapRemove(map, key)

\* replace_all retaining every Persistent entry, requested or not.
ReplaceClosureKeepsOld(current_map, new_entries) ==
    LET kept == {k \in DOMAIN current_map :
                    current_map[k].meta.policy = Persistent}
    IN  [k \in DOMAIN new_entries \cup kept |->
            IF k \in kept THEN current_map[k] ELSE new_entries[k]]

\* replace_all publishing the requested entries alone.
ReplaceClosureNoRetain(current_map, new_entries) == new_entries

\* The closure of replace_all's rcu: the requested entries, plus the
\* Persistent entries of `current_map` that are not requested.
ReplaceClosure(current_map, new_entries) ==
    LET kept == {k \in DOMAIN current_map :
                    /\ k \notin DOMAIN new_entries
                    /\ current_map[k].meta.policy = Persistent}
    IN  [k \in DOMAIN new_entries \cup kept |->
            IF k \in DOMAIN new_entries THEN new_entries[k] ELSE current_map[k]]

\* emit_replace_events, first loop: one event per new entry.
ReplaceLoadEvent(old_map, new_entries, k) ==
    IF k \in DOMAIN old_map
    THEN IF old_map[k].value.arc # new_entries[k].value.arc
         THEN <<EvUpdated(k, old_map[k].value, new_entries[k].value,
                          new_entries[k].meta)>>
         ELSE <<>>
    ELSE <<EvLoaded(k, new_entries[k].value, new_entries[k].meta)>>

\* The second loop of emit_replace_events without the policy test.
ReplaceDropEventAllRemoved(old_map, provided_keys, k) ==
    IF k \in provided_keys THEN <<>>
    ELSE <<EvRemoved(k, old_map[k].value)>>

\* emit_replace_events, second loop: one event per old key not provided.
ReplaceDropEvent(old_map, provided_keys, k) ==
    IF k \in provided_keys THEN <<>>
    ELSE IF old_map[k].meta.policy = Persistent
         THEN <<EvRetained(k, ErrPersistentRemoval(k))>>
         ELSE <<EvRemoved(k, old_map[k].value)>>

RECURSIVE FlatMap(_, _, _, _)
FlatMap(order, old_map, new_entries, first) ==
    IF order = <<>> THEN <<>>
    ELSE (IF first
          THEN ReplaceLoadEvent(old_map, new_entries, Head(order))
          ELSE ReplaceDropEvent(old_map, DOMAIN new_entries, Head(order)))
         \o FlatMap(Tail(order), old_map, new_entries, first)

\* The event sequences emit_replace_events may send: both loops follow the
\* iteration order of a HashMap, which is arbitrary.
ReplaceEvents(old_map, new_entries) ==
    {FlatMap(o1, old_map, new_entries, TRUE)
        \o FlatMap(o2, old_map, new_entries, FALSE) :
        o1 \in Orders(DOMAIN new_entries), o2 \in Orders(DOMAIN old_map)}

\* The closures with insert's old_entry written by the first run only.
RunClosureKeepsFirst(l, o, cur) ==
    CASE o.kind = "insert" ->
            [l EXCEPT !.cur = cur,
                      !.old_entry = IF l.cur.ptr = 0
                                    THEN MapGet(cur.map, o.key) ELSE @]
      [] o.kind = "remove" ->
            [l EXCEPT !.cur = cur,
                      !.removed = IF o.key \in DOMAIN cur.map
                                  THEN Some(cur.map[o.key].value) ELSE @]
      [] o.kind = "replace_all" ->
            [l EXCEPT !.cur = cur, !.old_map = cur.map]

\* The RefCells a closure writes when rcu runs it on the snapshot `cur`.
\* insert overwrites old_entry, replace_all overwrites old_map; remove
\* writes `removed` only when the key is in the snapshot.
RunClosure(l, o, cur) ==
    CASE o.kind = "insert" ->
            [l EXCEPT !.cur = cur, !.old_entry = MapGet(cur.map, o.key)]
      [] o.kind = "remove" ->
            [l EXCEPT !.cur = cur,
                      !.removed = IF o.key \in DOMAIN cur.map
                                  THEN Some(cur.map[o.key].value) ELSE @]
      [] o.kind = "replace_all" ->
            [l EXCEPT !.cur = cur, !.old_map = cur.map]

\* The map the closure returns for the snapshot it last ran on.
ClosureResult(l, o) ==
    CASE o.kind = "insert" -> InsertClosure(l.cur.map, o.key, l.new_entry)
      [] o.kind = "remove" -> RemoveClosure(l.cur.map, o.key)
      [] o.kind = "replace_all" -> ReplaceClosure(l.cur.map, l.new_entries)

\* --------------------------------------------------- Store: client calls
ReplaceInputs == UNION {[D -> UnloadPolicy] : D \in SUBSET Keys}

NoOp == [kind |-> "none", key |-> 0, policy |-> Removable, entries |-> EmptyMap]

Ops ==
    {[kind |-> "insert", key |-> k, policy |-> p, entries |-> EmptyMap] :
        k \in Keys, p \in UnloadPolicy}
    \cup {[kind |-> kd, key |-> k, policy |-> Removable, entries |-> EmptyMap] :
        kd \in {"remove", "get"}, k \in Keys}
    \cup {[kind |-> "snapshot", key |-> 0, policy |-> Removable,
           entries |-> EmptyMap]}
    \cup {[kind |-> "replace_all", key |-> 0, policy |-> Removable,
           entries |-> m] : m \in ReplaceInputs}

\* The source path a client thread passes: opaque to the Store.
ClientSource(t) == <<0, t>>

LocInit ==
    [cur |-> [ptr |-> 0, map |-> EmptyMap], new_entry |-> None,
     new_entries |-> EmptyMap, todo |-> {}, old_entry |-> None,
     removed |-> None, old_map |-> EmptyMap, pend |-> <<>>,
     started |-> 0, ended |-> 0]

FirstStep(o) ==
    CASE o.kind = "insert" -> "ins_alloc"
      [] o.kind = "remove" -> "rem_probe"
      [] o.kind = "get" -> "get_load"
      [] o.kind = "snapshot" -> "snap_load"
      [] o.kind = "replace_all" ->
            IF o.entries = EmptyMap THEN "rcu_load" ELSE "rep_alloc"

\* Store::new, as a record of the Store's fields and the history.
NewStore ==
    [inner |-> [ptr |-> 1, map |-> EmptyMap],
     version |-> 0,
     events |-> <<>>,
     hist |-> <<[kind |-> "new", t |-> 0, key |-> 0, new |-> None,
               map |-> EmptyMap]>>,
     allocs |-> <<>>]

\* Store::insert run to completion with no other writer in between, by
\* caller `t`: the version, the publication, the event.
StoreInsert(st, t, key, data, source, policy) ==
    LET v == NextVersion(st.version)
        e == Entry(data, source, v, policy)
        old == MapGet(st.inner.map, key)
        m == InsertClosure(st.inner.map, key, e)
    IN  [inner |-> [ptr |-> Len(st.hist) + 1, map |-> m],
         version |-> st.version + 1,
         events |-> Append(st.events,
                      IF old.some
                      THEN EvUpdated(key, old.val.value, e.value, e.meta)
                      ELSE EvLoaded(key, e.value, e.meta)),
         hist |-> Append(st.hist,
                      [kind |-> "insert", t |-> t, key |-> key, new |-> e,
                       map |-> m]),
         allocs |-> Append(st.allocs, [t |-> t, key |-> key, v |-> v])]

\* What the program did before the threads start: for each key either
\* nothing, or one insert with the given policy (keys in ascending order).
SetupChoices == [Keys -> {"absent"} \cup UnloadPolicy]

RECURSIVE Setup(_, _)
Setup(c, k) ==
    IF k = 0 THEN NewStore
    ELSE IF c[k] = "absent" THEN Setup(c, k - 1)
         ELSE StoreInsert(Setup(c, k - 1), 0, k, 0, <<0, 0>>, c[k])

StoreIs(st) ==
    /\ inner = st.inner
    /\ version = st.version
    /\ events = st.events
    /\ hist = st.hist
    /\ allocs = st.allocs

\* do_scan's locals before a scan.
ScanIdle ==
    [pc |-> "idle", todo |-> {}, key |-> 0, is_new |-> FALSE,
     load_result |-> [tag |-> "NotFound"], fs_keys |-> {}, old_owned |-> {},
     keys_to_check |-> {},
     result |-> [added |-> {}, updated |-> {}, failed |-> {}, removed |-> {},
                 retained |-> {}]]

\* A directory that does not exist. `files[k]` is the state of the file
\* "k.json"; `hidden` holds the keys k whose file ".k.json" exists.
NoDir == [exists |-> FALSE, files |-> [k \in Keys |-> "absent"], hidden |-> {}]

\* No raw event handled yet.
NoRaw == [n |-> 0, kind |-> "Other", paths |-> {}, queue |-> <<>>]

\* No Watcher, no watch task.
WatchUnused ==
    /\ wcfg = [ok |-> FALSE]
    /\ pending = << >>
    /\ sent = <<>>
    /\ wtime = << >>
    /\ raw = NoRaw
    /\ rx = [n |-> 0, lagged |-> FALSE, closed |-> FALSE]
    /\ wt = [pc |-> "none", holders |-> 0]

\* The controllers of Spec: none.
DirsUnused ==
    /\ fs = [c \in Dirs |-> NoDir]
    /\ dirPolicy = [c \in Dirs |-> Removable]
    /\ owned = [c \in Dirs |-> {}]
    /\ lock = [c \in Dirs |-> 0]
    /\ sc = [s \in Tasks |-> ScanIdle]
    /\ scans = 0
    /\ changes = 0
    /\ loaded = [c \in Dirs |-> {}]

\* The client threads of SpecDir: none.
ThreadsUnused ==
    /\ pc = [t \in Threads |-> "idle"]
    /\ op = [t \in Threads |-> NoOp]
    /\ loc = [t \in Threads |-> LocInit]
    /\ ret = [t \in Threads |-> None]

Init ==
    /\ DirsUnused
    /\ WatchUnused
    /\ \E c \in SetupChoices : StoreIs(Setup(c, NumKeys))
    /\ pc = [t \in Threads |-> "idle"]
    /\ op = [t \in Threads |-> NoOp]
    /\ loc = [t \in Threads |-> LocInit]
    /\ ret = [t \in Threads |-> None]

\* Store::remove without the Persistent check.
StoreRemoveForce(st, key) ==
    LET snapshot == st.inner.map
    IN  IF key \notin DOMAIN snapshot
        THEN [st |-> st, res |-> ErrNotFound(key)]
        ELSE LET m == RemoveClosure(snapshot, key)
             IN  [st |-> [st EXCEPT
                        !.inner = [ptr |-> Len(st.hist) + 1, map |-> m],
                        !.hist = Append(@, [kind |-> "remove", t |-> 0,
                                    key |-> key, new |-> None, map |-> m]),
                        !.events = Append(@,
                                    EvRemoved(key, snapshot[key].value))],
                  res |-> Ok(snapshot[key].value)]

\* Store::remove run to completion with no other writer in between: the
\* Store after it and what it returns.
StoreRemove(st, key) ==
    LET snapshot == st.inner.map
    IN  IF key \notin DOMAIN snapshot
        THEN [st |-> st, res |-> ErrNotFound(key)]
        ELSE IF snapshot[key].meta.policy = Persistent
        THEN [st |-> [st EXCEPT !.events = Append(@,
                        EvRetained(key, ErrPersistentRemoval(key)))],
              res |-> ErrPersistentRemoval(key)]
        ELSE LET m == RemoveClosure(snapshot, key)
             IN  [st |-> [st EXCEPT
                        !.inner = [ptr |-> Len(st.hist) + 1, map |-> m],
                        !.hist = Append(@, [kind |-> "remove", t |-> 0,
                                    key |-> key, new |-> None, map |-> m]),
                        !.events = Append(@,
                                    EvRemoved(key, snapshot[key].value))],
                  res |-> Ok(snapshot[key].value)]

\* The Store's fields and history as a record.
TheStore ==
    [inner |-> inner, version |-> version, events |-> events, hist |-> hist,
     allocs |-> allocs]

StoreBecomes(st) ==
    /\ inner' = st.inner
    /\ version' = st.version
    /\ events' = st.events
    /\ hist' = st.hist
    /\ allocs' = st.allocs

\* A thread calls into the Store.
Call(t) ==
    /\ pc[t] = "idle"
    /\ \E o \in Ops :
        /\ op' = [op EXCEPT ![t] = o]
        /\ pc' = [pc EXCEPT ![t] = FirstStep(o)]
        /\ loc' = [loc EXCEPT ![t] =
                    [LocInit EXCEPT !.todo = DOMAIN o.entries,
                                    !.started = Len(hist)]]
    /\ ret' = [ret EXCEPT ![t] = None]
    /\ UNCHANGED <<watchVars, dirVars, storeVars>>

\* Store::get: one load of `inner`, then a lookup in the snapshot.
GetLoad(t) ==
    /\ pc[t] = "get_load"
    /\ ret' = [ret EXCEPT ![t] = Get(inner.map, op[t].key)]
    /\ loc' = [loc EXCEPT ![t].cur = inner, ![t].ended = Len(hist)]
    /\ pc' = [pc EXCEPT ![t] = "done"]
    /\ UNCHANGED <<watchVars, dirVars, storeVars, op>>

\* Store::snapshot: load_full.
SnapshotLoad(t) ==
    /\ pc[t] = "snap_load"
    /\ ret' = [ret EXCEPT ![t] = Some(inner.map)]
    /\ loc' = [loc EXCEPT ![t].cur = inner, ![t].ended = Len(hist)]
    /\ pc' = [pc EXCEPT ![t] = "done"]
    /\ UNCHANGED <<watchVars, dirVars, storeVars, op>>

\* Store::insert up to the rcu: allocate the version, build the entry.
InsertAlloc(t) ==
    /\ pc[t] = "ins_alloc"
    /\ version' = version + 1
    /\ allocs' = Append(allocs,
                    [t |-> t, key |-> op[t].key, v |-> NextVersion(version)])
    /\ loc' = [loc EXCEPT ![t].new_entry =
                Entry(t, ClientSource(t), NextVersion(version), op[t].policy)]
    /\ pc' = [pc EXCEPT ![t] = "rcu_load"]
    /\ UNCHANGED <<watchVars, dirVars, inner, events, hist, op, ret>>

\* Store::replace_all, one round of the loop that builds new_entries.
ReplaceAlloc(t) ==
    /\ pc[t] = "rep_alloc"
    /\ \E k \in loc[t].todo :
        /\ version' = version + 1
        /\ allocs' = Append(allocs,
                        [t |-> t, key |-> k, v |-> NextVersion(version)])
        /\ loc' = [loc EXCEPT
                    ![t].new_entries = MapInsert(@, k,
                        Entry(t, ClientSource(t), NextVersion(version),
                              op[t].entries[k])),
                    ![t].todo = @ \ {k}]
        /\ pc' = [pc EXCEPT ![t] =
                    IF loc[t].todo = {k} THEN "rcu_load" ELSE "rep_alloc"]
    /\ UNCHANGED <<watchVars, dirVars, inner, events, hist, op, ret>>

\* Store::remove, the pre-check on a loaded snapshot.
RemoveProbe(t) ==
    /\ pc[t] = "rem_probe"
    /\ LET key == op[t].key
           snapshot == inner.map
       IN  \/ /\ key \notin DOMAIN snapshot
              /\ ret' = [ret EXCEPT ![t] = ErrNotFound(key)]
              /\ pc' = [pc EXCEPT ![t] = "done"]
           \/ /\ key \in DOMAIN snapshot
              /\ snapshot[key].meta.policy = Persistent
              /\ pc' = [pc EXCEPT ![t] = "rem_retained"]
              /\ ret' = ret
           \/ /\ key \in DOMAIN snapshot
              /\ snapshot[key].meta.policy # Persistent
              /\ pc' = [pc EXCEPT ![t] = "rcu_load"]
              /\ ret' = ret
    /\ UNCHANGED <<watchVars, dirVars, storeVars, op, loc>>

\* Store::remove on a Persistent entry: send Retained, return the error.
RemoveRetained(t) ==
    /\ pc[t] = "rem_retained"
    /\ events' = Append(events,
                    EvRetained(op[t].key, ErrPersistentRemoval(op[t].key)))
    /\ ret' = [ret EXCEPT ![t] = ErrPersistentRemoval(op[t].key)]
    /\ pc' = [pc EXCEPT ![t] = "done"]
    /\ UNCHANGED <<watchVars, dirVars, inner, version, hist, allocs, op, loc>>

\* ArcSwap::rcu: the first load, and the closure's first run.
RcuLoad(t) ==
    /\ pc[t] = "rcu_load"
    /\ loc' = [loc EXCEPT ![t] = RunClosure(@, op[t], inner)]
    /\ pc' = [pc EXCEPT ![t] = "rcu_cas"]
    /\ UNCHANGED <<watchVars, dirVars, storeVars, op, ret>>

\* What a call does once its rcu has published.
AfterRcu(t, l) ==
    CASE op[t].kind = "insert" -> "ins_send"
      [] op[t].kind = "remove" -> "rem_ret"
      [] op[t].kind = "replace_all" ->
            IF l.pend = <<>> THEN "done" ELSE "rep_emit"

\* ArcSwap::rcu: compare_and_swap against the snapshot the closure ran on.
\* It publishes if `inner` is still that Arc; otherwise the closure runs
\* again on the Arc the compare_and_swap found.
RcuCas(t) ==
    /\ pc[t] = "rcu_cas"
    /\ \/ /\ inner.ptr = loc[t].cur.ptr
          /\ inner' = [ptr |-> Len(hist) + 1,
                       map |-> ClosureResult(loc[t], op[t])]
          /\ hist' = Append(hist,
                [kind |-> op[t].kind, t |-> t, key |-> op[t].key,
                 new |-> IF op[t].kind = "insert" THEN loc[t].new_entry
                         ELSE IF op[t].kind = "replace_all"
                              THEN loc[t].new_entries ELSE None,
                 map |-> inner'.map])
          /\ \E evs \in IF op[t].kind = "replace_all"
                        THEN ReplaceEvents(loc[t].old_map, loc[t].new_entries)
                        ELSE {<<>>} :
                /\ loc' = [loc EXCEPT ![t].pend = evs,
                                       ![t].ended = Len(hist')]
                /\ pc' = [pc EXCEPT ![t] = AfterRcu(t, loc'[t])]
       \/ /\ inner.ptr # loc[t].cur.ptr
          /\ loc' = [loc EXCEPT ![t] = RunClosure(@, op[t], inner)]
          /\ UNCHANGED <<inner, hist, pc>>
    /\ UNCHANGED <<watchVars, dirVars, version, events, allocs, op, ret>>

\* Store::insert after the rcu: send Updated or Loaded, return the value.
InsertSend(t) ==
    /\ pc[t] = "ins_send"
    /\ LET e == loc[t].new_entry
           old == loc[t].old_entry
       IN  /\ events' = Append(events,
                IF old.some
                THEN EvUpdated(op[t].key, old.val.value, e.value, e.meta)
                ELSE EvLoaded(op[t].key, e.value, e.meta))
           /\ ret' = [ret EXCEPT ![t] = Ok(e.value)]
    /\ pc' = [pc EXCEPT ![t] = "done"]
    /\ UNCHANGED <<watchVars, dirVars, inner, version, hist, allocs, op, loc>>

\* Store::remove after the rcu: the match on `removed`.
RemoveReturn(t) ==
    /\ pc[t] = "rem_ret"
    /\ IF loc[t].removed.some
       THEN /\ events' = Append(events, EvRemoved(op[t].key, loc[t].removed.val))
            /\ ret' = [ret EXCEPT ![t] = Ok(loc[t].removed.val)]
       ELSE /\ events' = events
            /\ ret' = [ret EXCEPT ![t] = ErrConcurrentlyRemoved(op[t].key)]
    /\ pc' = [pc EXCEPT ![t] = "done"]
    /\ UNCHANGED <<watchVars, dirVars, inner, version, hist, allocs, op, loc>>

\* Store::replace_all after the rcu: emit_replace_events, one send a step.
ReplaceEmit(t) ==
    /\ pc[t] = "rep_emit"
    /\ events' = Append(events, Head(loc[t].pend))
    /\ loc' = [loc EXCEPT ![t].pend = Tail(@)]
    /\ pc' = [pc EXCEPT ![t] = IF Len(loc[t].pend) = 1 THEN "done" ELSE "rep_emit"]
    /\ UNCHANGED <<watchVars, dirVars, inner, version, hist, allocs, op, ret>>

Next ==
    \E t \in Threads :
        \/ Call(t)
        \/ GetLoad(t)
        \/ SnapshotLoad(t)
        \/ InsertAlloc(t)
        \/ ReplaceAlloc(t)
        \/ RemoveProbe(t)
        \/ RemoveRetained(t)
        \/ RcuLoad(t)
        \/ RcuCas(t)
        \/ InsertSend(t)
        \/ RemoveReturn(t)
        \/ ReplaceEmit(t)

Spec == Init /\ [][Next]_vars

\* ------------------------------------------------------ Store: properties
Readers == {t \in Threads : pc[t] = "done" /\ op[t].kind \in {"get", "snapshot"}}

\* The positions in `hist` of the publications of replace_all.
ReplacePubs == {j \in 2..Len(hist) : hist[j].kind = "replace_all"}

\* C1: a completed get(k) returns what some map that was current between
\* the start of the call and its return holds for k: the value of k (its
\* Arc) in that map, or None when that map does not hold k. So it never
\* returns a value never published for k, nor None while k stayed present.
GetReturnsCurrentValue ==
    \A t \in Threads :
        (pc[t] = "done" /\ op[t].kind = "get") =>
            \E i \in loc[t].started..loc[t].ended :
                ret[t] = IF op[t].key \in DOMAIN hist[i].map
                         THEN Some(hist[i].map[op[t].key].value)
                         ELSE None

\* A get that started before another thread's publication of its key and
\* returned the value installed during the call.
GetSawValueInstalledDuringCall ==
    \E t \in Threads :
        /\ pc[t] = "done" /\ op[t].kind = "get"
        /\ loc[t].started < loc[t].ended
        /\ ret[t].some
        /\ hist[loc[t].ended].kind = "insert"
        /\ hist[loc[t].ended].key = op[t].key
        /\ ret[t].val = hist[loc[t].ended].new.value
        /\ op[t].key \in DOMAIN hist[loc[t].started].map

\* C2: the map replace_all(M) publishes over the map P holds a key iff the
\* key is in M, or in P with policy Persistent; a key of M carries M's
\* entry (the requested policy, a fresh value), also when P held it as
\* Persistent; a retained key carries P's entry unchanged.
ReplaceAllResult ==
    \A j \in ReplacePubs :
        LET P == hist[j - 1].map
            M == hist[j].new
            R == hist[j].map
            req == op[hist[j].t].entries
        IN  /\ DOMAIN M = DOMAIN req
            /\ \A k \in Keys :
                /\ k \in DOMAIN R <=>
                    \/ k \in DOMAIN M
                    \/ k \in DOMAIN P /\ P[k].meta.policy = Persistent
                /\ k \in DOMAIN M =>
                    /\ R[k] = M[k]
                    /\ R[k].meta.policy = req[k]
                    /\ R[k].value.data = hist[j].t
                /\ k \in DOMAIN R \ DOMAIN M => R[k] = P[k]

\* A replace_all over a map with two Persistent entries: one requested
\* again (and replaced), one not requested (and retained).
ReplaceAllOverPersistent ==
    \E j \in ReplacePubs : \E k1, k2 \in Keys :
        /\ k1 \in DOMAIN hist[j].new /\ k2 \notin DOMAIN hist[j].new
        /\ k1 \in DOMAIN hist[j - 1].map /\ k2 \in DOMAIN hist[j - 1].map
        /\ hist[j - 1].map[k1].meta.policy = Persistent
        /\ hist[j - 1].map[k2].meta.policy = Persistent
        /\ hist[j].new[k1].meta.policy = Removable

\* C3: replace_all is one publication. A snapshot a reader loaded (by
\* snapshot() or inside get()) before the publication holds none of the
\* entries replace_all built; the snapshot that is the publication holds
\* all of them and every Persistent entry of the prior map not requested;
\* the snapshot just before it is the whole prior map.
ReplaceAllIsOnePublication ==
    \A t \in Readers : \A j \in ReplacePubs :
        LET S == loc[t].cur
            P == hist[j - 1].map
            N == hist[j].new
        IN  /\ S.ptr < j =>
                \A k \in DOMAIN N : ~(k \in DOMAIN S.map /\ S.map[k] = N[k])
            /\ S.ptr = j - 1 => S.map = P
            /\ S.ptr = j =>
                /\ \A k \in DOMAIN N : k \in DOMAIN S.map /\ S.map[k] = N[k]
                /\ \A k \in DOMAIN P \ DOMAIN N :
                    P[k].meta.policy = Persistent =>
                        k \in DOMAIN S.map /\ S.map[k] = P[k]

\* A reader that was called before a replace_all published, and loaded the
\* very map it published: a requested entry and a retained Persistent one.
ReaderSawReplacePublication ==
    \E t \in Readers : \E j \in ReplacePubs :
        /\ op[t].kind = "snapshot"
        /\ loc[t].started < j
        /\ loc[t].cur.ptr = j
        /\ hist[j].new # EmptyMap
        /\ \E k \in DOMAIN hist[j - 1].map \ DOMAIN hist[j].new :
            hist[j - 1].map[k].meta.policy = Persistent

\* The map that results from running one published call alone on `map`:
\* insert installs its entry, remove deletes a key that is present and not
\* Persistent (and otherwise fails), replace_all keeps the requested
\* entries and the Persistent ones.
SeqApply(map, h) ==
    CASE h.kind = "insert" -> MapInsert(map, h.key, h.new)
      [] h.kind = "remove" ->
            IF h.key \in DOMAIN map /\ map[h.key].meta.policy # Persistent
            THEN MapRemove(map, h.key) ELSE map
      [] h.kind = "replace_all" ->
            [k \in DOMAIN h.new \cup
                   {x \in DOMAIN map : map[x].meta.policy = Persistent} |->
                IF k \in DOMAIN h.new THEN h.new[k] ELSE map[k]]

\* C4: the map is the result of applying the published calls one at a time
\* in the order of their publications: every publication is the result of
\* its call run alone on the map it replaced.
StoreWritesLinearizable ==
    \A i \in 2..Len(hist) : hist[i].map = SeqApply(hist[i - 1].map, hist[i])

\* C5: the publication of a remove(k) never drops a Persistent entry: if
\* the map it replaces holds k as Persistent, the map it publishes holds
\* the same entry.
RemoveNeverDropsPersistent ==
    \A i \in 2..Len(hist) :
        LET k == hist[i].key
            P == hist[i - 1].map
        IN  (hist[i].kind = "remove" /\ k \in DOMAIN P
                /\ P[k].meta.policy = Persistent) =>
            (k \in DOMAIN hist[i].map /\ hist[i].map[k] = P[k])

\* C6: a remove(k) whose publication replaced a map that no longer held k
\* (another writer removed k after the probe) returns ConcurrentlyRemoved,
\* and no entry is reported removed twice: the channel carries at most one
\* Removed event for one installed value.
RemoveRaceReported ==
    /\ \A t \in Threads :
        (/\ pc[t] = "done" /\ op[t].kind = "remove" /\ loc[t].ended > 0
         /\ op[t].key \notin DOMAIN hist[loc[t].ended - 1].map)
        => ret[t] = ErrConcurrentlyRemoved(op[t].key)
    /\ \A i, j \in 1..Len(events) :
        (i < j /\ events[i].type = "Removed" /\ events[j].type = "Removed")
        => events[i].value.arc # events[j].value.arc

\* The number of versions thread t has been handed.
AllocCount(t) == Cardinality({i \in 1..Len(allocs) : allocs[i].t = t})

\* The number of entries thread t's call has written so far.
EntriesWritten(t) ==
    CASE op[t].kind = "insert" -> IF pc[t] = "ins_alloc" THEN 0 ELSE 1
      [] op[t].kind = "replace_all" ->
            Cardinality(DOMAIN op[t].entries) - Cardinality(loc[t].todo)
      [] OTHER -> 0

\* C7: the i-th version handed out is i: the first is 1, each is greater
\* than all before it and none is handed out twice; the counter equals the
\* number handed out; a call has taken one version per entry it has written
\* (one for insert, N for a replace_all of N entries, none for the others).
VersionsFromOneCounter ==
    /\ Len(allocs) = version
    /\ \A i \in 1..Len(allocs) : allocs[i].v = i
    /\ \A t \in Threads : AllocCount(t) = EntriesWritten(t)

\* A replace_all of two entries that returned, with another writer's
\* version taken between its two.
ReplaceAllocInterleaved ==
    \E t \in Threads :
        /\ pc[t] = "done" /\ op[t].kind = "replace_all"
        /\ Cardinality(DOMAIN loc[t].new_entries) = 2
        /\ \E k1, k2 \in DOMAIN loc[t].new_entries :
            loc[t].new_entries[k2].meta.version
                = loc[t].new_entries[k1].meta.version + 2

\* -------------------------------------------------------------- LiveDir
\* Each LiveDir is built by LiveDir::new (Files mode, Identity pattern, no
\* max_entries) with a policy, over its own directory and a FileSource
\* rooted there; all share one Store. File `k` of a directory is the one
\* file whose name extracts to key k. A scan task's calls into the Store
\* are taken whole, at their publication (Spec interleaves them).
Contents == {"absent", "invalid", "valid"}

\* DynLoader::load_file on file `key` of directory `d`: read, parse,
\* validate.
LoadFile(d, key) ==
    LET content == IF key \in Keys THEN d.files[key]
                   ELSE IF key - NumKeys \in d.hidden THEN "valid"
                   ELSE "absent"
    IN  IF ~d.exists \/ content = "absent" THEN [tag |-> "NotFound"]
        ELSE IF content = "invalid" THEN [tag |-> "Invalid"]
        ELSE [tag |-> "Ok", value |-> content]

\* The names read_dir yields for directory `d`.
DirEntries(d) ==
    {Name(FALSE, k) : k \in {x \in Keys : d.files[x] # "absent"}}
    \cup {Name(TRUE, k) : k \in d.hidden}

\* The listing with hidden names taken in.
FsEntriesWithHidden(d) == {Extract(n) : n \in DirEntries(d)}

\* The directory listing of do_scan: the keys of fs_entries, from the names
\* that do not start with '.'.
FsEntries(d) == {Extract(n) : n \in {x \in DirEntries(d) : ~StartsWithDot(x)}}

\* do_scan's difference, taken over every key of the Store.
KeysToCheckAllStore(old_owned, fs_keys) == DOMAIN inner.map \ fs_keys

\* do_scan's difference, with every owned key taken as gone.
KeysToCheckAllOwned(old_owned, fs_keys) == old_owned

\* do_scan: the keys to attempt to remove.
KeysToCheck(old_owned, fs_keys) == old_owned \ fs_keys

\* The Invalid arm dropping the key from the live set.
FsKeysAfterInvalidDrop(fs_keys, key, present) == fs_keys

\* do_scan, the Invalid arm: the key stays live if the Store holds it.
FsKeysAfterInvalid(fs_keys, key, present) ==
    IF present THEN fs_keys \cup {key} ELSE fs_keys

InitDir ==
    /\ StoreIs(NewStore)
    /\ ThreadsUnused
    /\ WatchUnused
    /\ fs \in [Dirs -> {NoDir} \cup
                {[exists |-> TRUE, files |-> f, hidden |-> {}] :
                    f \in [Keys -> Contents]}]
    /\ dirPolicy \in [Dirs -> UnloadPolicy]
    /\ owned = [c \in Dirs |-> {}]
    /\ lock = [c \in Dirs |-> 0]
    /\ sc = [s \in Tasks |-> ScanIdle]
    /\ scans = 0
    /\ changes = 0
    /\ loaded = [c \in Dirs |-> {}]

\* The end of the reconcile block and of do_scan: owned_keys is replaced
\* by fs_keys, the write guard dropped, the result returned.
Returned(r, fs_keys, result) ==
    [r EXCEPT !.pc = "idle", !.fs_keys = fs_keys, !.result = result,
              !.keys_to_check = {}]

\* do_scan with a missing root listed as an empty directory.
ScanStartListsMissing(s) ==
    /\ sc[s].pc = "idle"
    /\ scans < MaxScans
    /\ scans' = scans + 1
    /\ LET d == fs[DirOf(s)]
       IN  sc' = [sc EXCEPT ![s] =
                [ScanIdle EXCEPT !.todo = FsEntries(d),
                    !.pc = IF FsEntries(d) = {} THEN "lock" ELSE "load"]]
    /\ UNCHANGED <<storeVars, threadVars, watchVars, fs, dirPolicy, owned, lock, changes,
                   loaded>>

\* do_scan up to the load loop: the existence check and the listing.
ScanStart(s) ==
    /\ sc[s].pc = "idle"
    /\ scans < MaxScans
    /\ scans' = scans + 1
    /\ LET d == fs[DirOf(s)]
       IN  sc' = [sc EXCEPT ![s] =
                IF ~d.exists THEN ScanIdle
                ELSE [ScanIdle EXCEPT !.todo = FsEntries(d),
                        !.pc = IF FsEntries(d) = {} THEN "lock" ELSE "load"]]
    /\ UNCHANGED <<storeVars, threadVars, watchVars, fs, dirPolicy, owned, lock, changes,
                   loaded>>

\* do_scan, one round of the load loop up to the match: is_new and the
\* load of the file.
ScanLoad(s) ==
    /\ sc[s].pc = "load"
    /\ \E key \in sc[s].todo :
        sc' = [sc EXCEPT ![s].key = key,
                         ![s].is_new = ~Get(inner.map, key).some,
                         ![s].load_result = LoadFile(fs[DirOf(s)], key),
                         ![s].pc = "match"]
    /\ UNCHANGED <<storeVars, threadVars, watchVars, fs, dirPolicy, owned, lock, scans,
                   changes, loaded>>

\* do_scan, the match on load_result.
ScanMatch(s) ==
    /\ sc[s].pc = "match"
    /\ LET r == sc[s]
           key == r.key
           c == DirOf(s)
           todo == r.todo \ {key}
           next == IF todo = {} THEN "lock" ELSE "load"
       IN  \/ /\ r.load_result.tag = "Ok"
              /\ StoreBecomes(StoreInsert(TheStore, s, key,
                    r.load_result.value, <<c, key>>, dirPolicy[c]))
              /\ sc' = [sc EXCEPT ![s].todo = todo, ![s].pc = next,
                    ![s].fs_keys = @ \cup {key},
                    ![s].result.added = IF r.is_new THEN @ \cup {key} ELSE @,
                    ![s].result.updated = IF r.is_new THEN @ ELSE @ \cup {key}]
              /\ loaded' = [loaded EXCEPT ![c] = @ \cup {key}]
           \/ /\ r.load_result.tag = "Invalid"
              /\ sc' = [sc EXCEPT ![s].todo = todo, ![s].pc = next,
                    ![s].fs_keys = FsKeysAfterInvalid(@, key,
                                        Get(inner.map, key).some),
                    ![s].result.failed = @ \cup {key}]
              /\ UNCHANGED <<storeVars, loaded>>
           \/ /\ r.load_result.tag = "NotFound"
              /\ sc' = [sc EXCEPT ![s].todo = todo, ![s].pc = next]
              /\ UNCHANGED <<storeVars, loaded>>
    /\ UNCHANGED <<threadVars, watchVars, fs, dirPolicy, owned, lock, scans, changes>>

\* do_scan, the reconcile block: take the write lock on owned_keys and
\* compute keys_to_check. With nothing to check the block ends here.
ScanLock(s) ==
    /\ sc[s].pc = "lock"
    /\ lock[DirOf(s)] = 0
    /\ LET c == DirOf(s)
           check == KeysToCheck(owned[c], sc[s].fs_keys)
       IN  IF check = {}
           THEN /\ owned' = [owned EXCEPT ![c] = sc[s].fs_keys]
                /\ sc' = [sc EXCEPT ![s] =
                        Returned([@ EXCEPT !.old_owned = owned[c]],
                                 sc[s].fs_keys, sc[s].result)]
                /\ lock' = lock
           ELSE /\ lock' = [lock EXCEPT ![c] = s]
                /\ sc' = [sc EXCEPT ![s].old_owned = owned[c],
                                    ![s].keys_to_check = check,
                                    ![s].pc = "remove"]
                /\ owned' = owned
    /\ UNCHANGED <<storeVars, threadVars, watchVars, fs, dirPolicy, scans, changes, loaded>>

\* do_scan, one round of the removal loop; after the last one owned_keys
\* is replaced and the scan returns.
ScanRemove(s) ==
    /\ sc[s].pc = "remove"
    /\ \E key \in sc[s].keys_to_check :
        LET c == DirOf(s)
            rm == StoreRemove(TheStore, key)
            ok == rm.res.tag = "Ok"
            fs_keys == IF ok THEN sc[s].fs_keys ELSE sc[s].fs_keys \cup {key}
            result == IF ok
                      THEN [sc[s].result EXCEPT !.removed = @ \cup {key}]
                      ELSE [sc[s].result EXCEPT !.retained = @ \cup {key}]
        IN  /\ StoreBecomes(rm.st)
            /\ IF sc[s].keys_to_check = {key}
               THEN /\ owned' = [owned EXCEPT ![c] = fs_keys]
                    /\ lock' = [lock EXCEPT ![c] = 0]
                    /\ sc' = [sc EXCEPT ![s] = Returned(@, fs_keys, result)]
               ELSE /\ sc' = [sc EXCEPT ![s].fs_keys = fs_keys,
                                        ![s].result = result,
                                        ![s].keys_to_check = @ \ {key}]
                    /\ UNCHANGED <<owned, lock>>
    /\ UNCHANGED <<threadVars, watchVars, fs, dirPolicy, scans, changes, loaded>>

\* The environment writes, rewrites or deletes a file of a directory.
WriteFile(c, k, content) ==
    /\ changes < MaxChanges
    /\ fs[c].exists
    /\ fs[c].files[k] # content
    /\ fs' = [fs EXCEPT ![c].files[k] = content]
    /\ changes' = changes + 1
    /\ UNCHANGED <<storeVars, threadVars, watchVars, dirPolicy, owned, lock, sc, scans,
                   loaded>>

\* The environment removes a directory with its files, or creates it.
ToggleDir(c) ==
    /\ changes < MaxChanges
    /\ fs' = [fs EXCEPT ![c] = IF fs[c].exists THEN NoDir
                               ELSE [NoDir EXCEPT !.exists = TRUE]]
    /\ changes' = changes + 1
    /\ UNCHANGED <<storeVars, threadVars, watchVars, dirPolicy, owned, lock, sc, scans,
                   loaded>>

NextDir ==
    \/ \E s \in Tasks :
        \/ ScanStart(s)
        \/ ScanLoad(s)
        \/ ScanMatch(s)
        \/ ScanLock(s)
        \/ ScanRemove(s)
    \/ \E c \in Dirs :
        \/ \E k \in Keys, content \in Contents : WriteFile(c, k, content)
        \/ ToggleDir(c)

SpecDir == InitDir /\ [][NextDir]_vars

\* --------------------------------------------------- LiveDir: properties
\* The keys whose entry a step deletes from the Store.
Deleted == DOMAIN inner.map \ DOMAIN inner'.map

\* Task s takes a step of its removal loop.
RemoveStep(s) == sc[s].pc = "remove" /\ sc'[s] # sc[s]

\* C8: every store.remove of a scan is on a key that is in the
\* controller's owned_keys (which the write lock holds fixed during the
\* reconcile block) and not in the scan's live set; and an entry leaves the
\* Store only in such a step, so a key outside owned_keys is never removed.
ScanRemovesOnlyOwnedKeys ==
    [][/\ \A s \in Tasks :
            RemoveStep(s) =>
                \A k \in sc[s].keys_to_check \ sc'[s].keys_to_check :
                    k \in owned[DirOf(s)] /\ k \notin sc[s].fs_keys
       /\ \A k \in Deleted :
            \E s \in Tasks :
                /\ RemoveStep(s)
                /\ k \in owned[DirOf(s)]
                /\ k \notin sc[s].fs_keys]_vars

\* A scan that returned after removing a key it owned, while the Store
\* holds another controller's key that this controller does not own and
\* whose file is not in this controller's directory.
ScanRemovedOwnedKeptForeign ==
    \E s \in Tasks : \E k, k2 \in Keys :
        /\ sc[s].pc = "idle"
        /\ k \in sc[s].result.removed
        /\ k2 \in DOMAIN inner.map
        /\ k2 \notin sc[s].old_owned
        /\ fs[DirOf(s)].files[k2] = "absent"
        /\ inner.map[k2].meta.source[1] # DirOf(s)

\* C9: a scan of a controller removes from the Store only keys that this
\* controller has itself loaded successfully at some time: never a key
\* that only another controller loaded.
ScanNeverRemovesForeignKey ==
    [][\A s \in Tasks :
            RemoveStep(s) => \A k \in Deleted : k \in loaded[DirOf(s)]]_vars

\* The keys a running scan has recorded as failed with Invalid while the
\* Store held them.
InvalidKept(r) ==
    IF r.pc \in {"load", "match", "lock", "remove"}
    THEN (r.result.failed \cap r.fs_keys) \ r.result.retained
    ELSE {}

\* C10: when the load of a key the Store holds returns Invalid, the scan
\* changes neither the Store nor the version counter in that step, keeps
\* the key in its live set and reports it failed, not added or updated;
\* in its later steps the scan never changes or removes the key's entry,
\* never reports it removed, and when it returns the key is in owned_keys.
InvalidLoadKeepsOldValue ==
    [][\A s \in Tasks :
        sc'[s] # sc[s] =>
            /\ (/\ sc[s].pc = "match"
                /\ sc[s].load_result.tag = "Invalid"
                /\ sc[s].key \in DOMAIN inner.map)
               => /\ inner' = inner
                  /\ version' = version
                  /\ sc[s].key \in InvalidKept(sc'[s])
                  /\ sc[s].key \in sc'[s].result.failed
                  /\ sc[s].key \notin sc'[s].result.added
                        \cup sc'[s].result.updated \cup sc'[s].result.removed
            /\ \A k \in InvalidKept(sc[s]) :
                /\ k \in DOMAIN inner.map =>
                    k \in DOMAIN inner'.map /\ inner'.map[k] = inner.map[k]
                /\ k \in sc'[s].result.failed
                /\ k \notin sc'[s].result.added
                        \cup sc'[s].result.updated \cup sc'[s].result.removed
                /\ sc'[s].pc = "idle" => k \in owned'[DirOf(s)]]_vars

\* A reload that returned with a key it had loaded before reported failed:
\* the key is still owned and the Store still holds the entry this
\* controller loaded from the file.
ReloadFailedKeptOld ==
    \E s \in Tasks : \E k \in Keys :
        /\ sc[s].pc = "idle"
        /\ k \in sc[s].result.failed
        /\ k \in sc[s].old_owned
        /\ k \in owned[DirOf(s)]
        /\ k \in loaded[DirOf(s)]
        /\ k \in DOMAIN inner.map
        /\ inner.map[k].meta.source = <<DirOf(s), k>>
        /\ fs[DirOf(s)].files[k] = "invalid"

\* ------------------------------------------- LiveDir: a single controller
\* LiveDir 1 alone: its load() and reload() calls run one after the other
\* on a Store that other code filled before; every file it can load is
\* valid; the directory changes only between scans.
SoloContents == {"absent", "valid"}

InitSolo ==
    /\ \E c \in SetupChoices : StoreIs(Setup(c, NumKeys))
    /\ ThreadsUnused
    /\ WatchUnused
    /\ \E d \in {NoDir} \cup
                {[exists |-> TRUE, files |-> f, hidden |-> h] :
                    f \in [Keys -> SoloContents], h \in SUBSET Keys} :
            fs = [c \in Dirs |-> IF c = 1 THEN d ELSE NoDir]
    /\ \E p \in UnloadPolicy :
            dirPolicy = [c \in Dirs |-> IF c = 1 THEN p ELSE Removable]
    /\ owned = [c \in Dirs |-> {}]
    /\ lock = [c \in Dirs |-> 0]
    /\ sc = [s \in Tasks |-> ScanIdle]
    /\ scans = 0
    /\ changes = 0
    /\ loaded = [c \in Dirs |-> {}]

\* Between two scans a file "k.json" is written or deleted.
SoloWrite(k, content) == sc[1].pc = "idle" /\ WriteFile(1, k, content)

\* Between two scans a hidden file ".k.json" is created or deleted.
SoloWriteHidden(k) ==
    /\ sc[1].pc = "idle"
    /\ changes < MaxChanges
    /\ fs[1].exists
    /\ fs' = [fs EXCEPT ![1].hidden =
                IF k \in @ THEN @ \ {k} ELSE @ \cup {k}]
    /\ changes' = changes + 1
    /\ UNCHANGED <<storeVars, threadVars, watchVars, dirPolicy, owned, lock,
                   sc, scans, loaded>>

\* Between two scans the directory is removed or created.
SoloToggleDir == sc[1].pc = "idle" /\ ToggleDir(1)

NextSolo ==
    \/ ScanStart(1)
    \/ ScanLoad(1)
    \/ ScanMatch(1)
    \/ ScanLock(1)
    \/ ScanRemove(1)
    \/ \E k \in Keys, content \in SoloContents : SoloWrite(k, content)
    \/ \E k \in Keys : SoloWriteHidden(k)
    \/ SoloToggleDir

SpecSolo == InitSolo /\ [][NextSolo]_vars

\* ----------------------------------- LiveDir, single controller: properties
\* The scan of LiveDir 1 returns from its reconcile block.
SoloReturn == sc[1].pc \in {"lock", "remove"} /\ sc'[1].pc = "idle"

\* The map the Store held when the scan with result `r` started, given the
\* history `h` at its return: the scan was the only writer and published
\* once per key it added, updated or removed.
PreScanMap(h, r) ==
    h[Len(h) - Cardinality(r.added \cup r.updated) - Cardinality(r.removed)].map

\* The entry LiveDir 1 loaded from "k.json" is what the map holds for k.
HoldsLoaded(map, k) ==
    /\ k \in DOMAIN map
    /\ map[k].value.data = "valid"
    /\ map[k].meta.source = <<1, k>>

\* C11: with policy Removable, when a scan of the existing directory
\* returns, owned_keys is the set of keys of the non-hidden files; added is
\* the set of those keys the Store did not hold before the scan (the others
\* are updated); removed is the set of keys owned before whose file is gone,
\* and the Store holds none of them; it holds the loaded value of the rest.
ScanResultMatchesDirectory ==
    [][(SoloReturn /\ dirPolicy[1] = Removable) =>
        LET r == sc'[1].result
            pre == PreScanMap(hist', r)
            live == {Extract(n) : n \in {x \in DirEntries(fs[1]) : ~x.dot}}
        IN  /\ owned'[1] = live
            /\ r.added = live \ DOMAIN pre
            /\ r.updated = live \cap DOMAIN pre
            /\ r.removed = sc'[1].old_owned \ live
            /\ \A k \in r.removed : Get(inner'.map, k) = None
            /\ \A k \in live : HoldsLoaded(inner'.map, k)
            /\ r.failed = {} /\ r.retained = {}]_vars

\* A reload has returned after removing one key and updating another, in a
\* directory that holds a hidden file.
ReloadRemovedAndUpdated ==
    /\ sc[1].pc = "idle" /\ scans >= 2
    /\ dirPolicy[1] = Removable
    /\ sc[1].result.removed # {}
    /\ sc[1].result.updated # {}
    /\ fs[1].exists /\ fs[1].hidden # {}

MaxRaw == 3

\* signal/mod.rs: EventKind; "Other" is every notify kind that is none of
\* Create, Modify, Remove.
EventKind == {"Create", "Modify", "Remove"}
RawKind == EventKind \cup {"Other"}

\* Paths are sequences of names. The watched directory and its files.
RootPath == <<Name(FALSE, 0)>>
FilePath(dot, k) == Append(RootPath, Name(dot, k))

\* The paths notify reports: the files of the watched directory.
RawPaths == {FilePath(FALSE, k) : k \in Keys} \cup {FilePath(TRUE, 1)}

\* Path::parent
Parent(p) == IF Len(p) = 0 THEN None ELSE Some(SubSeq(p, 1, Len(p) - 1))

\* Path::exists for the paths of the model: the empty path does not exist.
PathExists(p) == p = RootPath \/ p \in RawPaths

\* path.strip_prefix(root).unwrap_or(path)
StripPrefix(path, root) ==
    IF Len(root) <= Len(path) /\ SubSeq(path, 1, Len(root)) = root
    THEN SubSeq(path, Len(root) + 1, Len(path))
    ELSE path

\* CompiledTarget::matches
Matches(target, path, config, root) ==
    LET relative_path == StripPrefix(path, root)
    IN  IF config.ignore_hidden
           /\ \E i \in 1..Len(relative_path) : StartsWithDot(relative_path[i])
        THEN FALSE
        ELSE CASE target.tag = "File" -> relative_path = target.path
               [] target.tag = "Directory" -> TRUE

\* handle_raw_event's and_modify closure with the arms for Create dropped.
CoalesceLatest(prev_kind, kind, coalesce) == kind

\* handle_raw_event, the and_modify closure: the kind a pending entry of
\* kind `prev_kind` takes on a raw event of kind `kind`.
Coalesce(prev_kind, kind, coalesce) ==
    IF ~coalesce THEN kind
    ELSE CASE prev_kind = "Create" /\ kind = "Modify" -> prev_kind
           [] prev_kind = "Create" /\ kind = "Remove" -> "Remove"
           [] prev_kind = "Modify" /\ kind = "Remove" -> "Remove"
           [] prev_kind = "Remove" /\ kind = "Modify" -> prev_kind
           [] OTHER -> kind

\* and_modify that leaves last_seen as it was.
TouchKeepsAge(state, kind, coalesce) ==
    [age |-> state.age, kind |-> Coalesce(state.kind, kind, coalesce)]

\* handle_raw_event, and_modify: last_seen = now, then the coalesced kind.
Touch(state, kind, coalesce) ==
    [age |-> 0, kind |-> Coalesce(state.kind, kind, coalesce)]

\* handle_raw_event, the entry API on `pending` for one path.
Upsert(pend, path, kind, coalesce) ==
    [q \in DOMAIN pend \cup {path} |->
        IF q # path THEN pend[q]
        ELSE IF path \in DOMAIN pend THEN Touch(pend[path], kind, coalesce)
        ELSE [age |-> 0, kind |-> kind]]

\* flush_pending with every due entry allowed.
AllowedAlways(config, kind) == TRUE

\* flush_pending: the listen_events allow-list.
Allowed(config, kind) ==
    IF config.listen_events.some THEN kind \in config.listen_events.val
    ELSE TRUE

\* Watcher::new: watch path and root for the target, the existence check.
NewWatcher(target, config) ==
    LET parent == Parent(target.path)
        watch_path == IF target.tag = "File" /\ parent.some THEN parent.val
                      ELSE target.path
    IN  IF ~PathExists(watch_path) THEN [ok |-> FALSE]
        ELSE [ok |-> TRUE, running |-> TRUE, target |-> target,
              root |-> watch_path,
              debounce |-> config.debounce, coalesce |-> config.coalesce,
              ignore_hidden |-> config.ignore_hidden,
              listen_events |-> config.listen_events]

\* The targets and configurations of the model.
Targets ==
    {[tag |-> "File", path |-> FilePath(FALSE, 1)],
     [tag |-> "File", path |-> <<Name(FALSE, 1)>>],
     [tag |-> "Directory", path |-> RootPath]}

\* Config::debounce, in ticks of the flush interval.
Debounce == 2

Configs ==
    [debounce : {Debounce}, coalesce : BOOLEAN, ignore_hidden : BOOLEAN,
     listen_events : {None, Some({"Create"}), Some({"Modify", "Remove"})}]

\* No raw event yet for any path: the timers stand at their cap.
TimeInit(config) ==
    [p \in RawPaths |-> [raw |-> config.debounce, emit |-> config.debounce,
                         burst |-> 0, kinds |-> <<>>]]

\* A Watcher with nobody receiving from its channel.
InitDeb ==
    /\ StoreIs(NewStore)
    /\ ThreadsUnused
    /\ DirsUnused
    /\ \E target \in Targets, config \in Configs :
        /\ wcfg = NewWatcher(target, config)
        /\ wtime = TimeInit(config)
    /\ pending = << >>
    /\ sent = <<>>
    /\ raw = NoRaw
    /\ rx = [n |-> 0, lagged |-> FALSE, closed |-> FALSE]
    /\ wt = [pc |-> "none", holders |-> 0]

\* The capped increment of a timer.
Older(age) == IF age < wcfg.debounce THEN age + 1 ELSE age

\* One unit of time passes.
TimePasses ==
    /\ wcfg.ok
    /\ pending' = [p \in DOMAIN pending |->
                    [pending[p] EXCEPT !.age = Older(@)]]
    /\ wtime' = [p \in DOMAIN wtime |->
                    [wtime[p] EXCEPT !.raw = Older(@), !.emit = Older(@)]]
    /\ \/ pending' # pending
       \/ wtime' # wtime
    /\ UNCHANGED <<storeVars, threadVars, dirVars, wcfg, sent, raw, rx, wt>>

\* The paths of a raw event that pass the target filter.
Passing(paths) ==
    {p \in paths : Matches(wcfg.target, p, wcfg, wcfg.root)}

RECURSIVE UpsertAll(_, _, _)
UpsertAll(pend, paths, kind) ==
    IF paths = {} THEN pend
    ELSE LET p == CHOOSE x \in paths : TRUE
         IN  UpsertAll(Upsert(pend, p, kind, wcfg.coalesce), paths \ {p}, kind)

\* process_events receives a raw event and runs handle_raw_event on it.
\* Where the model keeps the raw channel's queue the event is its head.
HandleRawEvent(kind, paths) ==
    /\ wcfg.ok /\ wcfg.running
    /\ raw.n < MaxRaw
    /\ raw' = [n |-> raw.n + 1, kind |-> kind, paths |-> paths,
               queue |-> IF raw.queue = <<>> THEN <<>> ELSE Tail(raw.queue)]
    /\ LET hit == IF kind \in EventKind THEN Passing(paths) ELSE {}
       IN  /\ pending' = UpsertAll(pending, hit, kind)
           /\ wtime' = [p \in DOMAIN wtime |->
                IF p \notin hit THEN wtime[p]
                ELSE [wtime[p] EXCEPT
                        !.raw = 0,
                        !.burst = IF wtime[p].raw >= wcfg.debounce
                                  THEN 0 ELSE @,
                        !.kinds = IF p \in DOMAIN pending
                                  THEN Append(@, kind) ELSE <<kind>>]]
    /\ UNCHANGED <<storeVars, threadVars, dirVars, wcfg, sent, rx, wt>>

\* flush_pending: the entries that are due.
Due(pend) == {p \in DOMAIN pend : pend[p].age >= wcfg.debounce}

\* flush_pending: the events sent for the due entries, iterated in `order`.
RECURSIVE Flushed(_, _)
Flushed(pend, order) ==
    IF order = <<>> THEN <<>>
    ELSE LET p == Head(order)
             rest == Flushed(pend, Tail(order))
         IN  IF Allowed(wcfg, pend[p].kind)
             THEN <<[paths |-> <<p>>, kind |-> pend[p].kind]>> \o rest
             ELSE rest

\* tx.send of `n` events as the watch task's Receiver sees it: the channel
\* keeps the last RxCapacity events, older ones are overwritten.
RxCapacity == 2

Push(r, n) ==
    IF wt.pc # "recv" THEN r
    ELSE [r EXCEPT !.n = IF r.n + n > RxCapacity THEN RxCapacity ELSE r.n + n,
                   !.lagged = @ \/ r.n + n > RxCapacity]

\* flush_pending with a due entry removed only when its event is sent.
TickKeepsUnsent ==
    /\ wcfg.ok /\ wcfg.running
    /\ Due(pending) # {}
    /\ \E order \in Orders(Due(pending)) :
        LET evs == Flushed(pending, order)
            out == {evs[i].paths[1] : i \in 1..Len(evs)}
        IN  /\ sent' = sent \o evs
            /\ rx' = Push(rx, Len(evs))
            /\ wtime' = [p \in DOMAIN wtime |->
                    IF p \in out
                    THEN [wtime[p] EXCEPT !.emit = 0, !.burst = @ + 1]
                    ELSE wtime[p]]
            /\ pending' = [p \in DOMAIN pending \ out |-> pending[p]]
    /\ UNCHANGED <<storeVars, threadVars, dirVars, wcfg, raw, wt>>

\* The interval ticks and process_events runs flush_pending.
Tick ==
    /\ wcfg.ok /\ wcfg.running
    /\ Due(pending) # {}
    /\ \E order \in Orders(Due(pending)) :
        LET evs == Flushed(pending, order)
            out == {evs[i].paths[1] : i \in 1..Len(evs)}
        IN  /\ sent' = sent \o evs
            /\ rx' = Push(rx, Len(evs))
            /\ wtime' = [p \in DOMAIN wtime |->
                    IF p \in out
                    THEN [wtime[p] EXCEPT !.emit = 0, !.burst = @ + 1]
                    ELSE wtime[p]]
    /\ pending' = [p \in DOMAIN pending \ Due(pending) |-> pending[p]]
    /\ UNCHANGED <<storeVars, threadVars, dirVars, wcfg, raw, wt>>

\* The path sets of notify's events: one path, or the two of a rename.
RawPathSets ==
    {{p} : p \in RawPaths} \cup {{FilePath(FALSE, k) : k \in Keys}}

NextDeb ==
    \/ TimePasses
    \/ \E kind \in RawKind, paths \in RawPathSets : HandleRawEvent(kind, paths)
    \/ Tick

SpecDeb == InitDeb /\ [][NextDeb]_vars

\* ------------------------------------------------- Watcher: properties
\* The events a step sends on user_tx.
NewlySent == {sent'[i] : i \in Len(sent) + 1..Len(sent')}

\* A step of flush_pending that removes entries.
FlushStep == raw' = raw /\ DOMAIN pending' # DOMAIN pending

\* A step of handle_raw_event.
RawStep == raw'.n = raw.n + 1

\* C16: an event is emitted for a path only when at least `debounce` has
\* passed since the last raw event taken into `pending` for it and since
\* the last event emitted for it, and at most once for a burst (the raw
\* events with gaps shorter than `debounce`); every raw event taken into
\* `pending` for a path sets the entry's age to zero.
DebounceRespected ==
    [][/\ \A e \in NewlySent :
            LET p == e.paths[1]
            IN  /\ wtime[p].raw >= wcfg.debounce
                /\ wtime[p].emit >= wcfg.debounce
                /\ wtime'[p].burst = 1
       /\ RawStep =>
            \A p \in RawPaths :
                wtime'[p].raw = 0 =>
                    p \in DOMAIN pending' /\ pending'[p].age = 0]_vars

\* Exactly one event has been emitted for a path after a burst of three raw
\* events for it.
BurstEmittedOnce ==
    \E p \in RawPaths :
        /\ Len(wtime[p].kinds) = 3
        /\ p \notin DOMAIN pending
        /\ wtime[p].burst = 1
        /\ Cardinality({i \in 1..Len(sent) : sent[i].paths = <<p>>}) = 1

\* The coalescing table, row = pending kind, column = raw kind.
CoalesceTable ==
    [Create |-> [Create |-> "Create", Modify |-> "Create", Remove |-> "Remove"],
     Modify |-> [Create |-> "Create", Modify |-> "Modify", Remove |-> "Remove"],
     Remove |-> [Create |-> "Create", Modify |-> "Remove", Remove |-> "Remove"]]

\* The pending kind after the raw kinds `ks`, by that table.
RECURSIVE BurstKind(_, _)
BurstKind(ks, coalesce) ==
    IF Len(ks) = 1 THEN ks[1]
    ELSE LET n == ks[Len(ks)]
             prev == BurstKind(SubSeq(ks, 1, Len(ks) - 1), coalesce)
         IN  IF coalesce THEN CoalesceTable[prev][n] ELSE n

\* C17: a raw event of kind n taken into `pending` for a path whose entry
\* has kind p leaves the entry with the kind of the table when coalesce is
\* set, and with n otherwise; a new entry has kind n; the kind emitted at
\* flush is the kind so computed over the raw events of the entry.
CoalesceFollowsTable ==
    [][/\ RawStep =>
            \A p \in DOMAIN pending' :
                wtime'[p] # wtime[p] =>
                    pending'[p].kind =
                        IF p \notin DOMAIN pending THEN raw'.kind
                        ELSE IF wcfg.coalesce
                        THEN CoalesceTable[pending[p].kind][raw'.kind]
                        ELSE raw'.kind
       /\ \A e \in NewlySent :
            e.kind = BurstKind(wtime[e.paths[1]].kinds, wcfg.coalesce)]_vars

\* With coalesce set, the event emitted after the raw events Create, Modify,
\* Modify for a path has kind Create.
CoalescedBurstEmitted ==
    \E p \in RawPaths : \E i \in 1..Len(sent) :
        /\ wcfg.ok /\ wcfg.coalesce
        /\ wtime[p].kinds = <<"Create", "Modify", "Modify">>
        /\ p \notin DOMAIN pending
        /\ sent[i] = [paths |-> <<p>>, kind |-> "Create"]

\* C18: with Target::File(p), a raw event for p is taken into `pending`
\* and a raw event for another file of the directory is not.
FileTargetPassesItsPath ==
    [][(RawStep /\ wcfg.target.tag = "File" /\ raw'.kind \in EventKind) =>
        \A q \in raw'.paths :
            (q \in DOMAIN pending' /\ pending'[q].age = 0)
                <=> q = wcfg.target.path]_vars

\* C19: with listen_events set, every emitted event has a kind of the list,
\* and a due entry of another kind leaves `pending` with no event sent for
\* it; with listen_events unset an event is sent for every due entry.
OnlyListedKindsEmitted ==
    [][/\ \A e \in NewlySent :
            wcfg.listen_events.some => e.kind \in wcfg.listen_events.val
       /\ FlushStep =>
            \A p \in Due(pending) :
                /\ p \notin DOMAIN pending'
                /\ ([paths |-> <<p>>, kind |-> pending[p].kind] \in NewlySent)
                    <=> (wcfg.listen_events.some
                            => pending[p].kind \in wcfg.listen_events.val)
                /\ Cardinality({i \in Len(sent) + 1..Len(sent') :
                        sent'[i].paths = <<p>>}) <= 1]_vars

\* A due entry whose kind is not listed has left `pending` unsent, while an
\* entry of a listed kind was emitted.
UnlistedKindDropped ==
    \E p, q \in RawPaths :
        /\ wcfg.ok /\ wcfg.listen_events.some
        /\ wtime[p].kinds # <<>> /\ p \notin DOMAIN pending
        /\ \A i \in 1..Len(sent) : sent[i].paths # <<p>>
        /\ \E i \in 1..Len(sent) : sent[i].paths = <<q>>

\* ------------------------------------- Live and LiveDir: the watch task
\* One controller, a Live on file "1.json" of directory 1 or a LiveDir on
\* directory 1, after load() and watch(Config::default()).
DefaultConfig ==
    [debounce |-> Debounce, coalesce |-> TRUE, ignore_hidden |-> TRUE,
     listen_events |-> None]

WatchContents == {"absent", "valid", "edited"}

\* The path of a store entry's meta.source.
SourcePath(source) == FilePath(FALSE, source[2])

\* The match on the LoadResult with a failed load taking a version.
LiveInsertCounts(st, r, key) ==
    IF r.tag = "Ok"
    THEN StoreInsert(st, 1, key, r.value, <<1, key>>, Removable)
    ELSE [st EXCEPT !.version = @ + 1]

\* Live::load and the body of Live's watch loop, the match on the
\* LoadResult `r`: insert on Ok, nothing otherwise.
LiveInsert(st, r, key) ==
    IF r.tag = "Ok"
    THEN StoreInsert(st, 1, key, r.value, <<1, key>>, Removable)
    ELSE st

\* Live::load and the body of Live's watch loop: load the key, insert on Ok.
LiveLoad(st, d, key) == LiveInsert(st, LoadFile(d, key), key)

\* start_watching: the target of the controller's Watcher.
WatchTarget(kind, st) ==
    IF kind = "Live"
    THEN [tag |-> "File",
          path |-> SourcePath(GetMeta(st.inner.map, 1).val.source)]
    ELSE [tag |-> "Directory", path |-> RootPath]

InitWatch ==
    /\ ThreadsUnused
    /\ fs = [c \in Dirs |->
            IF c = 1
            THEN [exists |-> TRUE, hidden |-> {},
                  files |-> [k \in Keys |-> IF k = 1 THEN "valid"
                                            ELSE "absent"]]
            ELSE NoDir]
    /\ StoreIs(LiveLoad(NewStore, fs[1], 1))
    /\ \E kind \in {"Live", "LiveDir"} :
        /\ owned = [c \in Dirs |-> IF c = 1 /\ kind = "LiveDir" THEN {1}
                                    ELSE {}]
        /\ loaded = owned
        /\ wcfg = NewWatcher(WatchTarget(kind, TheStore), DefaultConfig)
        /\ wt = [pc |-> "recv", kind |-> kind, holders |-> 1, alive |-> {1},
                 holds |-> {1}, called |-> {}, ever |-> {1}, dead |-> {}]
    /\ dirPolicy = [c \in Dirs |-> Removable]
    /\ lock = [c \in Dirs |-> 0]
    /\ sc = [s \in Tasks |-> ScanIdle]
    /\ scans = 0
    /\ changes = 0
    /\ pending = << >>
    /\ sent = <<>>
    /\ wtime = TimeInit(DefaultConfig)
    /\ raw = NoRaw
    /\ rx = [n |-> 0, lagged |-> FALSE, closed |-> FALSE]

\* The environment writes, rewrites or deletes file "k.json" of the watched
\* directory; while the Watcher runs, notify queues a raw event for it.
WatchedWrite(k, content) ==
    /\ raw.n + Len(raw.queue) < MaxRaw
    /\ fs[1].files[k] # content
    /\ fs' = [fs EXCEPT ![1].files[k] = content]
    /\ raw' = IF ~wcfg.running THEN raw
              ELSE [raw EXCEPT !.queue = Append(@,
                    [kind |-> IF content = "absent" THEN "Remove"
                              ELSE IF fs[1].files[k] = "absent" THEN "Create"
                              ELSE "Modify",
                     paths |-> {FilePath(FALSE, k)}])]
    /\ UNCHANGED <<storeVars, threadVars, dirPolicy, owned, lock, sc, scans,
                   changes, loaded, wcfg, pending, sent, wtime, rx, wt>>

\* process_events takes the next raw event from raw_rx.
RawRecv ==
    /\ raw.queue # <<>>
    /\ HandleRawEvent(Head(raw.queue).kind, Head(raw.queue).paths)

\* The watch task's `while let Ok(_event) = rx.recv().await`: an event
\* starts the loop body (Live: load and insert; LiveDir: do_scan up to its
\* load loop), Err(Lagged) ends the loop and the task.
WatchRecv ==
    /\ wt.pc = "recv"
    /\ sc[1].pc = "idle"
    /\ IF rx.lagged
       THEN /\ wt' = [wt EXCEPT !.pc = "ended"]
            /\ rx' = [rx EXCEPT !.n = 0, !.lagged = FALSE]
            /\ UNCHANGED <<storeVars, sc>>
       ELSE /\ rx.n > 0
            /\ rx' = [rx EXCEPT !.n = @ - 1]
            /\ wt' = wt
            /\ IF wt.kind = "Live"
               THEN /\ StoreBecomes(LiveLoad(TheStore, fs[1], 1))
                    /\ sc' = sc
               ELSE /\ sc' = [sc EXCEPT ![1] =
                        IF ~fs[1].exists THEN ScanIdle
                        ELSE [ScanIdle EXCEPT !.todo = FsEntries(fs[1]),
                                !.pc = IF FsEntries(fs[1]) = {} THEN "lock"
                                       ELSE "load"]]
                    /\ UNCHANGED storeVars
    /\ UNCHANGED <<threadVars, fs, dirPolicy, owned, lock, scans, changes,
                   loaded, wcfg, pending, sent, wtime, raw>>

\* stop_watching by the only holder of the WatchState: Watcher::stop aborts
\* the debouncer, abort_handle.abort() the watch task at its next await.
StopWatching ==
    /\ wt.pc \in {"recv", "ended"}
    /\ sc[1].pc \in {"idle", "load"}
    /\ wt' = [wt EXCEPT !.pc = "stopped", !.holders = 0]
    /\ wcfg' = [wcfg EXCEPT !.running = FALSE]
    /\ sc' = [sc EXCEPT ![1] = ScanIdle]
    /\ rx' = [rx EXCEPT !.n = 0, !.lagged = FALSE, !.closed = TRUE]
    /\ raw' = [raw EXCEPT !.queue = <<>>]
    /\ UNCHANGED <<storeVars, threadVars, fs, dirPolicy, owned, lock, scans,
                   changes, loaded, pending, sent, wtime>>

\* The rest of the LiveDir watch task's loop body.
WatchScan ==
    /\ wt.pc = "recv"
    /\ \/ ScanLoad(1)
       \/ ScanMatch(1)
       \/ ScanLock(1)
       \/ ScanRemove(1)

NextWatch ==
    \/ \E k \in Keys, content \in WatchContents : WatchedWrite(k, content)
    \/ RawRecv
    \/ TimePasses
    \/ Tick
    \/ WatchRecv
    \/ WatchScan
    \/ StopWatching

SpecWatch == InitWatch /\ [][NextWatch]_vars

\* Time passes, the interval ticks, and the two spawned tasks are scheduled.
FairWatch ==
    /\ SpecWatch
    /\ WF_vars(TimePasses)
    /\ WF_vars(Tick)
    /\ WF_vars(RawRecv)
    /\ WF_vars(WatchRecv)
    /\ WF_vars(WatchScan)

\* ------------------------------------------- Watch task: properties
\* File "k.json" of the watched directory holds valid content and the store
\* holds another value, or none, under key k.
Stale(k) ==
    /\ LoadFile(fs[1], k).tag = "Ok"
    /\ Get(inner.map, k) = None
        \/ Get(inner.map, k).val.data # LoadFile(fs[1], k).value

\* C14: while a loaded Live is watching, once its file holds valid content
\* and stays unchanged, the store eventually holds the value parsed from
\* that content under the controller's key.
LiveWatchReloads ==
    <>[](wt.kind = "Live" => wt.pc = "stopped" \/ ~Stale(1))

\* C15: while a LiveDir is watching, once the directory stays unchanged,
\* the store eventually holds, for every non-hidden file with valid
\* content, the value parsed from it.
DirWatchReflects ==
    <>[](wt.kind = "LiveDir" =>
            wt.pc = "stopped" \/ \A k \in Keys : ~Stale(k))

\* C20: a watch task that finds it has lagged stays in its receive loop,
\* with the lag consumed; the task leaves the loop only by stop_watching.
LaggedTaskResumes ==
    [][/\ (wt.pc = "recv" /\ rx.lagged /\ rx' # rx /\ ~rx'.lagged) =>
            wt'.pc = "recv"
       /\ (wt.pc = "recv" /\ wt'.pc # "recv") => wt'.pc = "stopped"]_vars

\* ------------------------------------------------ Store: events, properties
\* The publications of insert on key k, and the event sent for one.
InsertPubs(k) ==
    {j \in 2..Len(hist) : hist[j].kind = "insert" /\ hist[j].key = k}

InsertEventAt(j, a) ==
    /\ events[a].type \in {"Loaded", "Updated"}
    /\ events[a].key = hist[j].key
    /\ events[a].meta = hist[j].new.meta

\* C26: for two inserts on one key, the event of the insert published
\* first is sent before the event of the insert published second, and the
\* `old` of an Updated event is the value the publication replaced.
KeyEventsFollowPublications ==
    \A k \in Keys : \A i, j \in InsertPubs(k) : \A a, b \in 1..Len(events) :
        /\ (i < j /\ InsertEventAt(i, a) /\ InsertEventAt(j, b)) => a < b
        /\ (InsertEventAt(j, b) /\ events[b].type = "Updated") =>
                /\ k \in DOMAIN hist[j - 1].map
                /\ events[b].old = hist[j - 1].map[k].value

\* The one event due for key k when M is published over P.
ReplaceEventFor(P, M, k) ==
    IF k \in DOMAIN M
    THEN IF k \in DOMAIN P
         THEN [type |-> "Updated", key |-> k, old |-> P[k].value,
               new |-> M[k].value, meta |-> M[k].meta]
         ELSE [type |-> "Loaded", key |-> k, value |-> M[k].value,
               meta |-> M[k].meta]
    ELSE IF P[k].meta.policy = Persistent
         THEN [type |-> "Retained", key |-> k,
               error |-> [tag |-> "PersistentRemoval", key |-> k]]
         ELSE [type |-> "Removed", key |-> k, value |-> P[k].value]

\* C27: when replace_all(M) publishes over the map P, the events it goes
\* on to send are exactly one per key of M or P: Loaded for a key of M not
\* in P, Updated for a key of both, Removed for a Removable key of P not
\* in M, Retained for a Persistent key of P not in M; each later step of
\* the call sends the next of them and nothing else.
ReplaceAllSendsOneEventPerKey ==
    [][\A t \in Threads :
        /\ (op[t].kind = "replace_all" /\ pc[t] = "rcu_cas"
                /\ pc'[t] # "rcu_cas") =>
            LET P == inner.map
                M == loc[t].new_entries
                evs == loc'[t].pend
                affected == DOMAIN M \cup DOMAIN P
            IN  /\ Len(evs) = Cardinality(affected)
                /\ \A k \in affected : \E i \in 1..Len(evs) :
                        evs[i] = ReplaceEventFor(P, M, k)
                /\ events' = events
                /\ pc'[t] = "done" <=> evs = <<>>
        /\ (pc[t] = "rep_emit" /\ loc'[t] # loc[t]) =>
            /\ events' = Append(events, Head(loc[t].pend))
            /\ loc'[t].pend = Tail(loc[t].pend)
            /\ pc'[t] = "done" <=> loc'[t].pend = <<>>]_vars

\* A replace_all has sent its events: Retained for a Persistent key it did
\* not provide and Loaded for a key the prior map did not hold.
ReplaceSentRetainedAndLoaded ==
    \E t \in Threads : \E j \in ReplacePubs : \E k1, k2 \in Keys :
        /\ hist[j].t = t /\ pc[t] = "done" /\ op[t].kind = "replace_all"
        /\ k1 \in DOMAIN hist[j - 1].map \ DOMAIN hist[j].new
        /\ hist[j - 1].map[k1].meta.policy = Persistent
        /\ k2 \in DOMAIN hist[j].new \ DOMAIN hist[j - 1].map
        /\ \E a, b \in 1..Len(events) :
            /\ events[a] = ReplaceEventFor(hist[j - 1].map, hist[j].new, k1)
            /\ events[b] = ReplaceEventFor(hist[j - 1].map, hist[j].new, k2)

\* C28: remove(k) that finds k Persistent in its snapshot returns
\* PersistentRemoval and sends one Retained event for k and no other;
\* remove(k) that finds no k returns NotFound and sends nothing; neither
\* publishes a map nor takes a version.
RemoveRefusedLeavesStore ==
    [][\A t \in Threads :
        LET k == op[t].key
        IN  /\ (pc[t] = "rem_probe" /\ pc'[t] # "rem_probe") =>
                /\ UNCHANGED <<inner, version, hist, allocs, events>>
                /\ k \notin DOMAIN inner.map =>
                    /\ pc'[t] = "done"
                    /\ ret'[t] = [tag |-> "NotFound", key |-> k]
                /\ (k \in DOMAIN inner.map
                        /\ inner.map[k].meta.policy = Persistent) =>
                    pc'[t] = "rem_retained"
            /\ (pc[t] = "rem_retained" /\ pc'[t] # "rem_retained") =>
                /\ UNCHANGED <<inner, version, hist, allocs>>
                /\ pc'[t] = "done"
                /\ ret'[t] = [tag |-> "PersistentRemoval", key |-> k]
                /\ Len(events') = Len(events) + 1
                /\ events'[Len(events')].type = "Retained"
                /\ events'[Len(events')].key = k]_vars

\* A remove has returned PersistentRemoval while the map still holds the
\* key as Persistent, and another has returned NotFound.
RemoveRefusedTwice ==
    \E t, u \in Threads :
        /\ pc[t] = "done" /\ op[t].kind = "remove"
        /\ ret[t] = ErrPersistentRemoval(op[t].key)
        /\ op[t].key \in DOMAIN inner.map
        /\ inner.map[op[t].key].meta.policy = Persistent
        /\ pc[u] = "done" /\ op[u].kind = "remove"
        /\ ret[u] = ErrNotFound(op[u].key)

\* ---------------------------------------------- Live: load, reload, watch
\* A Live on key 1 (file "1.json" of directory 1), its client on thread 1
\* and its watch task. The Watcher is left open here: an event may arrive
\* on the task's Receiver at any time.
MaxLoads == 3

LiveLoc == [load_result |-> [tag |-> "NotFound"], gets |-> <<>>]

\* The error load() returns for a LoadResult that is not Ok.
LiveLoadError(r) == [tag |-> "Load", error |-> r.tag]

InitLive ==
    /\ StoreIs(NewStore)
    /\ pc = [t \in Threads |-> "idle"]
    /\ op = [t \in Threads |-> NoOp]
    /\ loc = [t \in Threads |-> IF t = 1 THEN LiveLoc ELSE LocInit]
    /\ ret = [t \in Threads |-> None]
    /\ \E content \in Contents :
        fs = [c \in Dirs |->
                IF c = 1
                THEN [exists |-> TRUE, hidden |-> {},
                      files |-> [k \in Keys |-> IF k = 1 THEN content
                                                ELSE "absent"]]
                ELSE NoDir]
    /\ dirPolicy = [c \in Dirs |-> Removable]
    /\ owned = [c \in Dirs |-> {}]
    /\ lock = [c \in Dirs |-> 0]
    /\ sc = [s \in Tasks |-> ScanIdle]
    /\ scans = 0
    /\ changes = 0
    /\ loaded = [c \in Dirs |-> {}]
    /\ wcfg = [ok |-> FALSE]
    /\ pending = << >>
    /\ sent = <<>>
    /\ wtime = << >>
    /\ raw = NoRaw
    /\ rx = [n |-> 0, lagged |-> FALSE, closed |-> FALSE]
    /\ wt = [pc |-> "none", kind |-> "Live", holders |-> 0,
             load_result |-> [tag |-> "NotFound"], last |-> "none"]

\* Live::load / Live::reload up to the loader's result.
LiveCall ==
    /\ pc[1] = "idle"
    /\ version < MaxLoads
    /\ pc' = [pc EXCEPT ![1] = "live_load"]
    /\ loc' = [loc EXCEPT ![1].load_result = LoadFile(fs[1], 1)]
    /\ ret' = [ret EXCEPT ![1] = None]
    /\ UNCHANGED <<storeVars, dirVars, watchVars, op>>

\* Live::load, the match on the result and the return; after Ok the client
\* calls get() and get_meta() and keeps what they return.
LiveReturn ==
    /\ pc[1] = "live_load"
    /\ LET r == loc[1].load_result
           st == LiveInsert(TheStore, r, 1)
       IN  /\ StoreBecomes(st)
           /\ ret' = [ret EXCEPT ![1] = IF r.tag = "Ok" THEN Ok(0)
                                        ELSE LiveLoadError(r)]
           /\ loc' = [loc EXCEPT ![1].gets =
                    IF r.tag # "Ok" THEN @
                    ELSE Append(@,
                        [value |-> Get(st.inner.map, 1).val,
                         version |-> GetMeta(st.inner.map, 1).val.version,
                         changes |-> changes,
                         watching |-> wt.pc # "none"])]
    /\ pc' = [pc EXCEPT ![1] = "idle"]
    /\ UNCHANGED <<dirVars, watchVars, op>>

\* Live::start_watching: NotLoaded without an entry, else the Watcher and
\* the spawned task.
LiveStartWatching ==
    /\ pc[1] = "idle"
    /\ wt.pc = "none"
    /\ IF ~GetMeta(inner.map, 1).some
       THEN /\ ret[1] # [tag |-> "NotLoaded"]
            /\ ret' = [ret EXCEPT ![1] = [tag |-> "NotLoaded"]]
            /\ UNCHANGED <<wcfg, wtime, wt>>
       ELSE /\ wcfg' = NewWatcher(WatchTarget("Live", TheStore),
                                  DefaultConfig)
            /\ wtime' = TimeInit(DefaultConfig)
            /\ wt' = [wt EXCEPT !.pc = "recv", !.holders = 1]
            /\ ret' = [ret EXCEPT ![1] = Ok(0)]
    /\ UNCHANGED <<storeVars, dirVars, pc, op, loc, pending, sent, raw, rx>>

\* An event of the Watcher reaches the task's Receiver.
EventArrives ==
    /\ wt.pc \in {"recv", "loaded"}
    /\ rx.n < RxCapacity
    /\ rx' = [rx EXCEPT !.n = @ + 1]
    /\ UNCHANGED <<storeVars, threadVars, dirVars, wcfg, pending, sent,
                   wtime, raw, wt>>

\* The watch task: rx.recv() returns an event and the loader is awaited.
LiveTaskRecv ==
    /\ wt.pc = "recv"
    /\ rx.n > 0
    /\ version < MaxLoads
    /\ rx' = [rx EXCEPT !.n = @ - 1]
    /\ wt' = [wt EXCEPT !.pc = "loaded",
                        !.load_result = LoadFile(fs[1], 1)]
    /\ UNCHANGED <<storeVars, threadVars, dirVars, wcfg, pending, sent,
                   wtime, raw>>

\* The watch task: the `if let LoadResult::Ok` of the loop body.
LiveTaskInsert ==
    /\ wt.pc = "loaded"
    /\ StoreBecomes(LiveInsert(TheStore, wt.load_result, 1))
    /\ wt' = [wt EXCEPT !.pc = "recv", !.last = wt.load_result.tag]
    /\ UNCHANGED <<threadVars, dirVars, wcfg, pending, sent, wtime, raw, rx>>

NextLive ==
    \/ LiveCall
    \/ LiveReturn
    \/ LiveStartWatching
    \/ EventArrives
    \/ LiveTaskRecv
    \/ LiveTaskInsert
    \/ \E content \in Contents : WriteFile(1, 1, content)

SpecLive == InitLive /\ [][NextLive]_vars

InsertedIffOk(r) ==
    IF r.tag = "Ok"
    THEN /\ version' = version + 1
         /\ 1 \in DOMAIN inner'.map
         /\ inner'.map[1].value.data = r.value
         /\ inner'.map[1].meta.policy = Removable
         /\ inner'.map[1].meta.version = version'
         /\ \A k \in DOMAIN inner.map :
                inner.map[k].meta.version < inner'.map[1].meta.version
    ELSE UNCHANGED <<inner, version, events, hist, allocs>>

\* C22: load()/reload() inserts the loaded value under the key with policy
\* Removable and a fresh version and returns Ok iff the loader returned
\* Ok; on NotFound or Invalid it leaves the store as it is and returns the
\* error; the watch task's reload inserts, or leaves the store, likewise.
LiveInsertsIffLoaded ==
    [][/\ (pc[1] = "live_load" /\ pc'[1] = "idle") =>
            /\ InsertedIffOk(loc[1].load_result)
            /\ ret'[1] = IF loc[1].load_result.tag = "Ok" THEN Ok(0)
                         ELSE [tag |-> "Load",
                               error |-> loc[1].load_result.tag]
       /\ (wt.pc = "loaded" /\ wt'.pc = "recv") =>
            InsertedIffOk(wt.load_result)]_vars

\* reload() has returned the Invalid error and the watch task has dropped
\* an Invalid load, the store still holding the value loaded before.
ReloadsFailedValueKept ==
    /\ pc[1] = "idle"
    /\ ret[1] = [tag |-> "Load", error |-> "Invalid"]
    /\ wt.last = "Invalid"
    /\ Get(inner.map, 1) # None
    /\ Len(loc[1].gets) > 0
    /\ Get(inner.map, 1).val = loc[1].gets[Len(loc[1].gets)].value

\* C23: of two successive load() calls on an unchanged source (no watcher
\* attached), get() returns the same shared value object after both, and
\* the second leaves the key's meta.version one above the first.
LoadTwiceSameValue ==
    pc[1] = "idle" =>
        \A i \in 1..Len(loc[1].gets) - 1 :
            LET g == loc[1].gets[i]
                h == loc[1].gets[i + 1]
            IN  (g.changes = h.changes /\ ~g.watching /\ ~h.watching) =>
                    /\ h.value.arc = g.value.arc
                    /\ h.value.data = g.value.data
                    /\ h.version = g.version + 1

\* ------------------------------------------ Live and LiveDir: the clones
\* The controller values are numbered; `alive` are the values that exist,
\* `holds` those whose watch_state is Some (the strong count of the
\* Arc<WatchState>), `called` those on which stop_watching has been called,
\* `ever` those that have held the watch state, `dead` the dropped ones.
NumClones == 3
Clones == 1..NumClones

\* Clone::clone of controller `c` into the new value `d`.
CloneOf(c, d) ==
    /\ c \in wt.alive
    /\ d \notin wt.alive \cup wt.dead
    /\ wt' = [wt EXCEPT !.alive = @ \cup {d},
                        !.holds = IF c \in @ THEN @ \cup {d} ELSE @,
                        !.ever = IF c \in wt.holds THEN @ \cup {d} ELSE @,
                        !.holders = IF c \in wt.holds THEN @ + 1 ELSE @]
    /\ UNCHANGED <<storeVars, threadVars, dirVars, wcfg, pending, sent,
                   wtime, raw, rx>>

\* Whether clone `c` takes the WatchState out of the Arc: Live tries
\* Arc::try_unwrap after take(), LiveDir tests strong_count == 1 first.
Unwraps(c) == wt.holds = {c}

\* watch_state of clone `c` after stop_watching: Live has taken it in any
\* case; LiveDir only when it was the last holder.
HoldsAfterStop(c) ==
    IF wt.kind = "Live" \/ Unwraps(c) THEN wt.holds \ {c} ELSE wt.holds

\* The watch state after clone `c` ran stop_watching (dropped = FALSE) or
\* was dropped (dropped = TRUE): with the WatchState unwrapped,
\* watcher.stop() and abort_handle.abort().
Release(c, dropped) ==
    LET holds == IF dropped THEN wt.holds \ {c} ELSE HoldsAfterStop(c)
    IN  /\ wt' = [wt EXCEPT
                    !.pc = IF Unwraps(c) THEN "stopped" ELSE @,
                    !.holds = holds,
                    !.holders = Cardinality(holds),
                    !.called = IF dropped THEN @ ELSE @ \cup {c},
                    !.alive = IF dropped THEN @ \ {c} ELSE @,
                    !.dead = IF dropped THEN @ \cup {c} ELSE @]
        /\ wcfg' = IF Unwraps(c) THEN [wcfg EXCEPT !.running = FALSE]
                   ELSE wcfg
        /\ rx' = IF Unwraps(c)
                 THEN [rx EXCEPT !.n = 0, !.lagged = FALSE, !.closed = TRUE]
                 ELSE rx

\* stop_watching on clone `c`.
StopWatchingOn(c) ==
    /\ c \in wt.alive
    /\ c \notin wt.called
    /\ Release(c, FALSE)
    /\ UNCHANGED <<storeVars, threadVars, dirVars, pending, sent, wtime, raw>>

\* Drop of clone `c`.
DropClone(c) ==
    /\ c \in wt.alive
    /\ Release(c, TRUE)
    /\ UNCHANGED <<storeVars, threadVars, dirVars, pending, sent, wtime, raw>>

NextClones ==
    \/ \E c, d \in Clones : CloneOf(c, d)
    \/ \E c \in Clones : StopWatchingOn(c)
    \/ \E c \in Clones : DropClone(c)

SpecClones == InitWatch /\ [][NextClones]_vars

\* C24: while a clone that has held the watch state is neither dropped nor
\* has called stop_watching, the watcher runs and the task is not aborted;
\* once every clone that has held it is dropped or has called
\* stop_watching, the watcher is stopped and the task aborted.
WatchStopsWithLastClone ==
    LET left == {c \in wt.ever : c \notin wt.dead /\ c \notin wt.called}
    IN  IF left # {}
        THEN wcfg.running /\ wt.pc = "recv"
        ELSE ~wcfg.running /\ wt.pc = "stopped"

\* ------------------------------------------------ Watcher: stop and drop
\* A Watcher on the directory with Config::default() and one Receiver from
\* subscribe(). rx.closed: every Sender of the channel is dropped, the
\* debouncer's clone and the Watcher's own event_tx.
InitStop ==
    /\ StoreIs(NewStore)
    /\ ThreadsUnused
    /\ DirsUnused
    /\ wcfg = NewWatcher([tag |-> "Directory", path |-> RootPath],
                         DefaultConfig)
    /\ wtime = TimeInit(DefaultConfig)
    /\ pending = << >>
    /\ sent = <<>>
    /\ raw = NoRaw
    /\ rx = [n |-> 0, lagged |-> FALSE, closed |-> FALSE]
    /\ wt = [pc |-> "recv", kind |-> "Subscriber", holders |-> 0]

\* Watcher::stop: the debouncer task is aborted and its Sender dropped;
\* the Watcher keeps event_tx.
WatcherStop ==
    /\ wcfg.ok /\ wcfg.running
    /\ wcfg' = [wcfg EXCEPT !.running = FALSE]
    /\ UNCHANGED <<storeVars, threadVars, dirVars, pending, sent, wtime, raw,
                   rx, wt>>

\* The Watcher value is dropped: the task is aborted and event_tx dropped.
WatcherDrop ==
    /\ wcfg.ok /\ ~rx.closed
    /\ wcfg' = [wcfg EXCEPT !.running = FALSE]
    /\ rx' = [rx EXCEPT !.closed = TRUE]
    /\ UNCHANGED <<storeVars, threadVars, dirVars, pending, sent, wtime, raw,
                   wt>>

\* The subscriber's rx.recv(): the lag, the next event, or Closed once the
\* channel is empty and has no Sender.
SubscriberRecv ==
    /\ wt.pc = "recv"
    /\ \/ /\ rx.lagged
          /\ rx' = [rx EXCEPT !.lagged = FALSE]
          /\ wt' = wt
       \/ /\ ~rx.lagged /\ rx.n > 0
          /\ rx' = [rx EXCEPT !.n = @ - 1]
          /\ wt' = wt
       \/ /\ ~rx.lagged /\ rx.n = 0 /\ rx.closed
          /\ wt' = [wt EXCEPT !.pc = "closed"]
          /\ rx' = rx
    /\ UNCHANGED <<storeVars, threadVars, dirVars, wcfg, pending, sent, wtime,
                   raw>>

NextStop ==
    \/ TimePasses
    \/ \E kind \in EventKind, k \in Keys :
            HandleRawEvent(kind, {FilePath(FALSE, k)})
    \/ Tick
    \/ WatcherStop
    \/ WatcherDrop
    \/ SubscriberRecv

SpecStop == InitStop /\ [][NextStop]_vars

\* Time passes, the interval ticks while the debouncer runs, and the
\* subscriber keeps receiving.
FairStop ==
    /\ SpecStop
    /\ WF_vars(TimePasses)
    /\ WF_vars(Tick)
    /\ WF_vars(SubscriberRecv)

\* C25: after Watcher::stop() the subscriber's Receiver eventually returns
\* Closed, the Watcher value being dropped or not; the entries pending at
\* the stop are never emitted.
StopClosesReceivers ==
    /\ (wcfg.ok /\ ~wcfg.running) ~> (wt.pc = "closed")
    /\ [][~wcfg.running => sent' = sent]_vars

\* After stop() nothing more is sent.
NothingSentAfterStop == [][~wcfg.running => sent' = sent]_vars

\* ------------------------------------------------------------ FileSource
\* Paths are sequences of components from "/". The source's root is the
\* directory "/r", which is directory 1 of `fs`; in it are the file "a"
\* (file 1 of the directory), the directory "sub" with the file "b" (file 2),
\* the symlink "lo" to the file "/o/f" outside the root and the symlink "li"
\* to "/r/a".
RootDir == <<"r">>
OutsideFile == <<"o", "f">>

\* What the filesystem holds at the symlink-free absolute path p.
Node(d, p) ==
    IF p = <<>> \/ p = <<"o">> THEN [type |-> "dir"]
    ELSE IF p = OutsideFile THEN [type |-> "file"]
    ELSE IF ~d.exists THEN [type |-> "missing"]
    ELSE IF p = RootDir \/ p = <<"r", "sub">> THEN [type |-> "dir"]
    ELSE IF p = <<"r", "a">> /\ d.files[1] # "absent" THEN [type |-> "file"]
    ELSE IF p = <<"r", "sub", "b">> /\ d.files[2] # "absent"
    THEN [type |-> "file"]
    ELSE IF p = <<"r", "lo">> THEN [type |-> "link", to |-> OutsideFile]
    ELSE IF p = <<"r", "li">> THEN [type |-> "link", to |-> <<"r", "a">>]
    ELSE [type |-> "missing"]

\* fs::canonicalize: the walk from the resolved prefix `cur` over the
\* components `rest`.
RECURSIVE Walk(_, _, _)
Walk(d, cur, rest) ==
    IF rest = <<>> THEN [tag |-> "Ok", path |-> cur]
    ELSE IF Head(rest) = ".."
    THEN Walk(d, IF cur = <<>> THEN cur ELSE SubSeq(cur, 1, Len(cur) - 1),
              Tail(rest))
    ELSE LET next == Append(cur, Head(rest))
             n == Node(d, next)
         IN  IF n.type = "missing" THEN [tag |-> "NotFound"]
             ELSE IF n.type = "link" THEN Walk(d, <<>>, n.to \o Tail(rest))
             ELSE IF n.type = "file" /\ Tail(rest) # <<>>
             THEN [tag |-> "NotADirectory"]
             ELSE Walk(d, next, Tail(rest))

Canonicalize(d, p) == Walk(d, <<>>, p)

\* PathBuf::join: an absolute key replaces the root.
Join(root, key) == IF key.abs THEN key.comps ELSE root \o key.comps

\* Path::starts_with, by components.
StartsWith(p, q) == Len(q) <= Len(p) /\ SubSeq(p, 1, Len(q)) = q

HasParentDir(key) == \E i \in 1..Len(key.comps) : key.comps[i] = ".."

\* FileSource::resolve_secure
ResolveSecure(d, key) ==
    LET canonical_root == Canonicalize(d, RootDir)
        canonical_path == Canonicalize(d, Join(RootDir, key))
    IN  IF HasParentDir(key) THEN [tag |-> "SandboxViolation"]
        ELSE IF canonical_root.tag # "Ok"
        THEN [tag |-> "Io", kind |-> canonical_root.tag]
        ELSE IF canonical_path.tag = "Ok"
        THEN IF StartsWith(canonical_path.path, canonical_root.path)
             THEN canonical_path ELSE [tag |-> "SandboxViolation"]
        ELSE IF canonical_path.tag = "NotFound" THEN [tag |-> "NotFound"]
        ELSE [tag |-> "Io", kind |-> canonical_path.tag]

\* FileSource::read: resolve, then fs::read of the resolved path.
SourceRead(d, key) ==
    LET r == ResolveSecure(d, key)
    IN  IF r.tag # "Ok" THEN r
        ELSE IF Node(d, r.path).type = "file"
        THEN [tag |-> "Ok", bytes |-> r.path]
        ELSE [tag |-> "Io", kind |-> "IsADirectory"]

\* FileSource::exists
SourceExists(d, key) == ResolveSecure(d, key).tag = "Ok"

Rel(comps) == [abs |-> FALSE, comps |-> comps]

SourceKeys ==
    {Rel(<<"a">>), Rel(<<"m">>), Rel(<<"sub">>), Rel(<<"sub", "b">>),
     Rel(<<"sub", "..", "a">>), Rel(<<"..", "o", "f">>), Rel(<<"lo">>),
     Rel(<<"li">>), Rel(<<"a", "m">>), [abs |-> TRUE, comps |-> OutsideFile]}

InitSource ==
    /\ StoreIs(NewStore)
    /\ ThreadsUnused
    /\ WatchUnused
    /\ \E d \in {NoDir} \cup
            {[NoDir EXCEPT !.exists = TRUE, !.files = f] :
                f \in [Keys -> {"absent", "valid"}]} :
        fs = [c \in Dirs |-> IF c = 1 THEN d ELSE NoDir]
    /\ dirPolicy = [c \in Dirs |-> Removable]
    /\ owned = [c \in Dirs |-> {}]
    /\ lock = [c \in Dirs |-> 0]
    /\ sc = [s \in Tasks |-> ScanIdle]
    /\ scans = 0
    /\ changes = 0
    /\ loaded = [c \in Dirs |-> {}]

\* A client calls source.read(key).
ReadCall(key) ==
    /\ op' = [op EXCEPT ![1] = [kind |-> "read", key |-> key]]
    /\ ret' = [ret EXCEPT ![1] = SourceRead(fs[1], key)]
    /\ UNCHANGED <<storeVars, dirVars, watchVars, pc, loc>>

NextSource ==
    \/ \E key \in SourceKeys : ReadCall(key)
    \/ \E k \in Keys, content \in {"absent", "valid"} :
        WriteFile(1, k, content)
    \/ ToggleDir(1)

SpecSource == InitSource /\ [][NextSource]_vars

\* C29: read(key) returns bytes only if the canonical path of root joined
\* with key lies under the canonical root; a key with a parent-dir
\* component gets SandboxViolation, also when it resolves inside the root;
\* a key resolving outside the root gets SandboxViolation; a key whose
\* file is missing gets NotFound.
SourceReadContract ==
    [][(fs' = fs /\ op'[1].kind = "read") =>
        LET d == fs[1]
            key == op'[1].key
            res == ret'[1]
            croot == Canonicalize(d, RootDir)
            target == Canonicalize(d, Join(RootDir, key))
        IN  /\ res.tag = "Ok" =>
                /\ croot.tag = "Ok" /\ target.tag = "Ok"
                /\ StartsWith(target.path, croot.path)
            /\ HasParentDir(key) => res.tag = "SandboxViolation"
            /\ (croot.tag = "Ok" /\ target.tag = "Ok"
                    /\ ~StartsWith(target.path, croot.path)) =>
                res.tag = "SandboxViolation"
            /\ (~HasParentDir(key) /\ target.tag = "NotFound") =>
                res.tag = "NotFound"]_vars

\* ------------------------------------------------------------- DynLoader
MaxFormats == 2

AnyFormats == {"Json", "Toml", "Yaml"}

\* Format::extensions
Extensions(format) ==
    IF format = "Json" THEN <<"json">>
    ELSE IF format = "Toml" THEN <<"toml">>
    ELSE <<"yaml", "yml">>

Exts == {"json", "toml", "yaml", "yml"}

\* format!("{}.{}", base_name, ext)
KeyOf(base_name, ext) == <<base_name, ext>>

\* The loaders DynLoaderBuilder builds: at least one format.
FormatLists ==
    UNION {[1..n -> AnyFormats] : n \in 1..MaxFormats}

\* A MemorySource with keys of the base name "test": per extension, absent
\* or the bytes of a document written in some format.
MemorySources == [Exts -> {"absent"} \cup AnyFormats]

\* MemorySource::exists
MemExists(data, key) == data[key[2]] # "absent"

\* MemorySource::read
MemRead(data, key) ==
    IF data[key[2]] # "absent" THEN [tag |-> "Ok", bytes |-> data[key[2]]]
    ELSE [tag |-> "NotFound"]

\* AnyFormat::parse
Parse(format, bytes) ==
    IF bytes = format THEN [tag |-> "Ok", obj |-> bytes]
    ELSE [tag |-> "ParseError"]

\* The inner loop of load with the last existing key kept.
RECURSIVE ProbeExtsKeepsLast(_, _, _, _, _)
ProbeExtsKeepsLast(data, base_name, format, exts, found) ==
    IF exts = <<>> THEN found
    ELSE LET key == KeyOf(base_name, Head(exts))
         IN  ProbeExtsKeepsLast(data, base_name, format, Tail(exts),
                 IF MemExists(data, key)
                 THEN [some |-> TRUE, key |-> key, format |-> format]
                 ELSE found)

\* The inner loop of load: the extensions of one format in list order;
\* `found` is set once and kept.
RECURSIVE ProbeExts(_, _, _, _, _)
ProbeExts(data, base_name, format, exts, found) ==
    IF exts = <<>> THEN found
    ELSE LET key == KeyOf(base_name, Head(exts))
         IN  ProbeExts(data, base_name, format, Tail(exts),
                 IF MemExists(data, key) /\ ~found.some
                 THEN [some |-> TRUE, key |-> key, format |-> format]
                 ELSE found)

\* The outer loop of load: the formats in registration order.
RECURSIVE ProbeFormats(_, _, _, _)
ProbeFormats(data, base_name, formats, found) ==
    IF formats = <<>> THEN found
    ELSE ProbeFormats(data, base_name, Tail(formats),
             ProbeExts(data, base_name, Head(formats),
                       Extensions(Head(formats)), found))

\* DynLoader::load_explicit, with the keys it reads.
LoadExplicit(data, key, format) ==
    LET bytes == MemRead(data, key)
        parsed == Parse(format, bytes.bytes)
        res == IF bytes.tag = "NotFound" THEN [tag |-> "NotFound"]
               ELSE IF parsed.tag = "Ok"
               THEN [tag |-> "Ok", value |-> parsed.obj,
                     info |-> [path |-> key,
                               format |-> Head(Extensions(format))]]
               ELSE [tag |-> "Invalid", error |-> parsed.tag]
    IN  [res |-> res, reads |-> <<key>>]

\* DynLoader::load
DynLoad(formats, data, base_name) ==
    LET found == ProbeFormats(data, base_name, formats, None)
    IN  IF found.some THEN LoadExplicit(data, found.key, found.format)
        ELSE [res |-> [tag |-> "NotFound"], reads |-> <<>>]

InitLoader ==
    /\ StoreIs(NewStore)
    /\ DirsUnused
    /\ WatchUnused
    /\ pc = [t \in Threads |-> "idle"]
    /\ op = [t \in Threads |-> NoOp]
    /\ ret = [t \in Threads |-> None]
    /\ \E formats \in FormatLists, data \in MemorySources :
        loc = [t \in Threads |->
                IF t = 1 THEN [formats |-> formats, data |-> data,
                               reads |-> <<>>]
                ELSE LocInit]

\* A client calls loader.load("test").
LoaderLoad ==
    /\ pc[1] = "idle"
    /\ LET r == DynLoad(loc[1].formats, loc[1].data, "test")
       IN  /\ ret' = [ret EXCEPT ![1] = r.res]
           /\ loc' = [loc EXCEPT ![1].reads = r.reads]
    /\ pc' = [pc EXCEPT ![1] = "done"]
    /\ UNCHANGED <<storeVars, dirVars, watchVars, op>>

NextLoader == LoaderLoad

SpecLoader == InitLoader /\ [][NextLoader]_vars

\* The candidates of a loader: format position and extension position.
Candidates(formats) ==
    {c \in (1..Len(formats)) \X (1..2) :
        c[2] <= Len(Extensions(formats[c[1]]))}

CandidateExt(formats, c) == Extensions(formats[c[1]])[c[2]]

Before(c, d) == c[1] < d[1] \/ (c[1] = d[1] /\ c[2] < d[2])

\* C30: load(base_name) takes the keys base_name.ext by format in
\* registration order and, within a format, by extension in list order;
\* the first key the source has is the only one read and is parsed with
\* its format; NotFound is returned iff the source has none of the keys.
FirstExistingCandidateLoaded ==
    pc[1] = "done" /\ "formats" \in DOMAIN loc[1] =>
        LET formats == loc[1].formats
            data == loc[1].data
            existing == {c \in Candidates(formats) :
                            data[CandidateExt(formats, c)] # "absent"}
        IN  /\ ret[1].tag = "NotFound" <=> existing = {}
            /\ existing = {} => loc[1].reads = <<>>
            /\ \A c \in existing :
                (\A d \in existing : d = c \/ Before(c, d)) =>
                    LET ext == CandidateExt(formats, c)
                        format == formats[c[1]]
                    IN  /\ loc[1].reads = <<KeyOf("test", ext)>>
                        /\ IF data[ext] = format
                           THEN /\ ret[1].tag = "Ok"
                                /\ ret[1].value = data[ext]
                                /\ ret[1].info.path = KeyOf("test", ext)
                                /\ ret[1].info.format =
                                       Extensions(format)[1]
                           ELSE ret[1].tag = "Invalid"

\* Both extensions of Yaml and the Toml key exist, Toml is registered
\* first, and the Toml document was loaded.
TomlWinsOverYaml ==
    /\ pc[1] = "done" /\ "formats" \in DOMAIN loc[1]
    /\ loc[1].formats = <<"Toml", "Yaml">>
    /\ \A e \in {"toml", "yaml", "yml"} : loc[1].data[e] # "absent"
    /\ ret[1].tag = "Ok"
    /\ loc[1].reads = <<KeyOf("test", "toml")>>

\* ---------------------------------------- Store: insert, properties
\* The events sent for the insert published as hist[j].
InsertEventsOf(j) ==
    {a \in 1..Len(events) : InsertEventAt(j, a)}

\* The insert published as hist[j] has published and not yet sent.
SendPending(j) ==
    LET t == hist[j].t
    IN  t \in Threads /\ pc[t] = "ins_send" /\ loc[t].new_entry = hist[j].new

\* C33: every insert sends exactly one event, Updated{old, new} with old
\* the value of the key in the map its compare-and-set replaced if the key
\* was in that map and Loaded otherwise, also after retries; insert
\* returns the value it published.
InsertSendsOneEvent ==
    \A k \in Keys : \A j \in InsertPubs(k) :
        IF SendPending(j) THEN InsertEventsOf(j) = {}
        ELSE /\ Cardinality(InsertEventsOf(j)) = 1
             /\ \A a \in InsertEventsOf(j) :
                    IF k \in DOMAIN hist[j - 1].map
                    THEN events[a] = EvUpdated(k, hist[j - 1].map[k].value,
                                        hist[j].new.value, hist[j].new.meta)
                    ELSE events[a] = EvLoaded(k, hist[j].new.value,
                                        hist[j].new.meta)
             /\ \A t \in Threads :
                    (pc[t] = "done" /\ op[t].kind = "insert"
                        /\ loc[t].new_entry = hist[j].new) =>
                    ret[t] = Ok(hist[j].new.value)

\* An insert called when its key was absent was overtaken by another
\* writer of the key before its compare-and-set, and sent Updated.
InsertRetriedSentUpdated ==
    \E t \in Threads :
        /\ pc[t] = "done" /\ op[t].kind = "insert"
        /\ op[t].key \notin DOMAIN hist[loc[t].started].map
        /\ \E j \in InsertPubs(op[t].key) :
            /\ hist[j].new = loc[t].new_entry
            /\ hist[j - 1].t # t
            /\ \E a \in InsertEventsOf(j) : events[a].type = "Updated"

\* C39: the versions successive get_meta(k) reads see never decrease: of
\* two maps published one after the other that both hold k, the later
\* holds k with a version at least that of the earlier.
MetaVersionNeverDecreases ==
    \A k \in Keys : \A i, j \in 1..Len(hist) :
        (i < j /\ k \in DOMAIN hist[i].map /\ k \in DOMAIN hist[j].map) =>
            GetMeta(hist[i].map, k).val.version
                <= GetMeta(hist[j].map, k).val.version

\* ------------------------------------------- LiveDir: retained, owned
\* LiveDir 1 and its clones, the only writers of an empty Store.
InitTwin ==
    /\ StoreIs(NewStore)
    /\ ThreadsUnused
    /\ WatchUnused
    /\ \E d \in {NoDir} \cup
                {[exists |-> TRUE, files |-> f, hidden |-> {}] :
                    f \in [Keys -> Contents]} :
            fs = [c \in Dirs |-> IF c = 1 THEN d ELSE NoDir]
    /\ \E p \in UnloadPolicy :
            dirPolicy = [c \in Dirs |-> IF c = 1 THEN p ELSE CloneOfFirst]
    /\ owned = [c \in Dirs |-> {}]
    /\ lock = [c \in Dirs |-> 0]
    /\ sc = [s \in Tasks |-> ScanIdle]
    /\ scans = 0
    /\ changes = 0
    /\ loaded = [c \in Dirs |-> {}]

NextTwin ==
    \/ \E s \in Tasks :
        \/ ScanStart(s)
        \/ ScanLoad(s)
        \/ ScanMatch(s)
        \/ ScanLock(s)
        \/ ScanRemove(s)
    \/ \E k \in Keys, content \in Contents : WriteFile(1, k, content)
    \/ ToggleDir(1)

SpecTwin == InitTwin /\ [][NextTwin]_vars

\* How many events the Store may have sent for another holder to call in.
MaxEvents == 2

\* Another holder of the Store calls remove(k).
ClientRemove(k) ==
    /\ Len(events) < MaxEvents
    /\ StoreBecomes(StoreRemove(TheStore, k).st)
    /\ UNCHANGED <<threadVars, dirVars, watchVars>>

NextShared ==
    \/ NextTwin
    \/ \E k \in Keys : ClientRemove(k)

SpecShared == InitTwin /\ [][NextShared]_vars

\* C35: a key a scan reports in `retained` is in the Store with policy
\* Persistent when it is reported: it is reported because remove returned
\* PersistentRemoval, never because the key was absent.
RetainedIsPersistent ==
    [][\A s \in Tasks :
        \A k \in sc'[s].result.retained \ sc[s].result.retained :
            /\ k \in DOMAIN inner.map
            /\ inner.map[k].meta.policy = Persistent]_vars

\* C40: for a LiveDir that is the only writer of its Store, once all
\* scans (of the LiveDir and of its clones) have returned, every key in
\* owned_keys is in the Store.
OwnedKeysAreStored ==
    (\A s \in Tasks : sc[s].pc = "idle") => owned[1] \subseteq DOMAIN inner.map

\* C36: a scan that finds the root missing returns the empty result and
\* leaves the Store and owned_keys as they were, whatever the policy.
MissingRootScanIsEmpty ==
    [][(scans' # scans /\ ~fs[1].exists) =>
        /\ sc'[1].pc = "idle"
        /\ sc'[1].result = ScanIdle.result
        /\ inner' = inner /\ events' = events
        /\ owned' = owned]_vars

\* A Removable LiveDir loaded keys, the root was removed, a scan ran: its
\* result is empty and the keys are still owned and stored.
MissingRootKeptKeys ==
    /\ ~fs[1].exists /\ dirPolicy[1] = Removable
    /\ sc[1].pc = "idle" /\ sc[1].result = ScanIdle.result
    /\ scans >= 2
    /\ owned[1] # {} /\ owned[1] \subseteq DOMAIN inner.map

\* ------------------------------------------- Watcher: the flush, fairness
\* A Watcher on the directory with the default coalescing and hidden-file
\* settings and any of the allow-lists.
InitFlush ==
    /\ InitDeb
    /\ wcfg.ok /\ wcfg.target.tag = "Directory"
    /\ wcfg.coalesce /\ wcfg.ignore_hidden

SpecFlush == InitFlush /\ [][NextDeb]_vars

\* Time passes, and select! takes the tick branch when the interval is
\* due, however many raw events are ready.
FairFlush == SpecFlush /\ WF_vars(TimePasses) /\ WF_vars(Tick)

\* C38: with the tick branch scheduled fairly, once raw events for a path
\* stop arriving its pending entry is flushed (emitted, or dropped when
\* its kind is not allowed): no entry stays in pending forever.
PendingEventuallyFlushed ==
    \A p \in RawPaths : (p \in DOMAIN pending) ~> (p \notin DOMAIN pending)

\* Every raw event has arrived, nothing is pending, and of the entries
\* flushed one was emitted and one was dropped by the allow-list.
FlushedEmittedAndDropped ==
    /\ raw.n = MaxRaw /\ pending = << >>
    /\ sent # <<>>
    /\ \E p \in RawPaths :
        /\ wtime[p].kinds # <<>>
        /\ \A i \in 1..Len(sent) : sent[i].paths # <<p>>

\* ------------------------------------------- LiveDir: the listing, names
\* A name is the sequence of its parts between dots: "a.json" is
\* <<"a", "json">>, ".h.json" is <<"", "h", "json">>. A directory entry
\* is a file, or a subdirectory with the names of the files in it.
File(name) == [name |-> name, dir |-> FALSE, files |-> {}]
Subdir(name, files) == [name |-> name, dir |-> TRUE, files |-> files]

ConfigNames ==
    {<<"config", "json">>, <<"config", "toml">>, <<"config", "json", "json">>}

FileEntries ==
    {File(<<"a", "json">>), File(<<"a", "toml">>), File(<<"b", "json">>),
     File(<<"", "h", "json">>)}

\* The directories of the model: files, and at most one subdirectory "s".
Directories ==
    {fe \cup se : fe \in SUBSET FileEntries,
                  se \in {{}} \cup {{Subdir(<<"s">>, f)} : f \in SUBSET ConfigNames}}

ScanModes ==
    {[tag |-> "Files"]} \cup
    {[tag |-> "Subdirs", config_file |-> cf] :
        cf \in {<<"config">>, <<"config", "json">>}}

\* name.starts_with('.')
NameStartsWithDot(name) == name[1] = ""

\* KeyPattern::extract_identity: the name up to its last dot.
ExtractIdentity(name) ==
    LET key == IF Len(name) = 1 THEN name ELSE SubSeq(name, 1, Len(name) - 1)
    IN  IF key = <<"">> THEN None ELSE Some(key)

\* The format a file with extension `ext` is written in; every file of the
\* model holds a valid document of its extension's format.
ContentOf(ext) ==
    IF \E f \in AnyFormats : \E i \in 1..Len(Extensions(f)) :
            Extensions(f)[i] = ext
    THEN CHOOSE f \in AnyFormats : \E i \in 1..Len(Extensions(f)) :
            Extensions(f)[i] = ext
    ELSE "absent"

\* The source seen from the key `base`: per extension, what the file
\* named base.ext among `names` holds.
DataAt(names, base) ==
    [e \in Exts |-> IF Append(base, e) \in names THEN ContentOf(e)
                    ELSE "absent"]

\* do_scan, the listing loop over read_dir's entries in the order it
\* yields them: the max_entries check, the hidden names, the scan mode.
RECURSIVE Listing(_, _, _, _)
Listing(order, scan_mode, max_entries, fs_entries) ==
    IF order = <<>> THEN [tag |-> "Ok", fs_entries |-> fs_entries]
    ELSE IF max_entries.some
            /\ Cardinality(DOMAIN fs_entries) >= max_entries.val
    THEN [tag |-> "LimitExceeded"]
    ELSE LET entry == Head(order)
             key == ExtractIdentity(entry.name)
             takes == /\ ~NameStartsWithDot(entry.name)
                      /\ key.some
                      /\ (scan_mode.tag = "Files") = ~entry.dir
             load_name == IF scan_mode.tag = "Files" THEN entry.name
                          ELSE [dir |-> entry.name,
                                base |-> scan_mode.config_file]
         IN  Listing(Tail(order), scan_mode, max_entries,
                IF takes THEN MapInsert(fs_entries, key.val, load_name)
                ELSE fs_entries)

\* DynLoader::load_file on the file `path` of a directory with the file
\* names `names`: the parser is chosen by the extension.
RECURSIVE LoadFileNamed(_, _, _)
LoadFileNamed(formats, names, path) ==
    LET ext == path[Len(path)]
        base == SubSeq(path, 1, Len(path) - 1)
    IN  IF Len(path) = 1 THEN [tag |-> "Invalid", error |-> "ParseError"]
        ELSE IF formats = <<>> THEN [tag |-> "NotFound"]
        ELSE IF \E i \in 1..Len(Extensions(Head(formats))) :
                    Extensions(Head(formats))[i] = ext
        THEN LoadExplicit(DataAt(names, base), KeyOf(base, ext),
                          Head(formats)).res
        ELSE LoadFileNamed(Tail(formats), names, path)

\* do_scan, the load of one fs_entries item by scan mode.
ScanLoadResult(formats, entries, scan_mode, load_name) ==
    IF scan_mode.tag = "Files"
    THEN LoadFileNamed(formats,
            {e.name : e \in {x \in entries : ~x.dir}}, load_name)
    ELSE LET sub == CHOOSE e \in entries : e.dir /\ e.name = load_name.dir
         IN  DynLoad(formats, DataAt(sub.files, load_name.base),
                     load_name.base).res

\* do_scan, the load loop over fs_entries in the order `keys` on a Store
\* no one else writes: the Store and the result lists after it.
RECURSIVE ScanLoads(_, _, _, _, _, _)
ScanLoads(keys, fs_entries, formats, entries, scan_mode, acc) ==
    IF keys = <<>> THEN acc
    ELSE LET key == Head(keys)
             is_new == ~Get(acc.st.inner.map, key).some
             r == ScanLoadResult(formats, entries, scan_mode, fs_entries[key])
             next ==
                IF r.tag = "Ok"
                THEN [acc EXCEPT
                        !.st = StoreInsert(@, 1, key, r.value,
                                           fs_entries[key], Removable),
                        !.added = IF is_new THEN @ \cup {key} ELSE @,
                        !.updated = IF is_new THEN @ ELSE @ \cup {key}]
                ELSE IF r.tag = "Invalid"
                THEN [acc EXCEPT !.failed = @ \cup {key}]
                ELSE acc
         IN  ScanLoads(Tail(keys), fs_entries, formats, entries, scan_mode,
                       next)

InitScan ==
    /\ StoreIs(NewStore)
    /\ DirsUnused
    /\ WatchUnused
    /\ pc = [t \in Threads |-> "idle"]
    /\ op = [t \in Threads |-> NoOp]
    /\ ret = [t \in Threads |-> None]
    /\ \E entries \in Directories, formats \in FormatLists,
          scan_mode \in ScanModes, max_entries \in {None, Some(1), Some(2)} :
        loc = [t \in Threads |->
                IF t = 1 THEN [entries |-> entries, formats |-> formats,
                               scan_mode |-> scan_mode,
                               max_entries |-> max_entries]
                ELSE LocInit]

\* load() on a new LiveDir with an empty Store: do_scan on an existing
\* root, read_dir yielding the entries in some order.
ScanOnce ==
    /\ pc[1] = "idle"
    /\ \E order \in Orders(loc[1].entries) :
        LET l == loc[1]
            listed == Listing(order, l.scan_mode, l.max_entries, EmptyMap)
        IN  IF listed.tag = "LimitExceeded"
            THEN /\ ret' = [ret EXCEPT ![1] = [tag |-> "LimitExceeded"]]
                 /\ UNCHANGED storeVars
            ELSE \E keys \in Orders(DOMAIN listed.fs_entries) :
                    LET done == ScanLoads(keys, listed.fs_entries, l.formats,
                                    l.entries, l.scan_mode,
                                    [st |-> TheStore, added |-> {},
                                     updated |-> {}, failed |-> {}])
                    IN  /\ StoreBecomes(done.st)
                        /\ ret' = [ret EXCEPT ![1] =
                                [tag |-> "Ok", added |-> done.added,
                                 updated |-> done.updated,
                                 failed |-> done.failed]]
    /\ pc' = [pc EXCEPT ![1] = "done"]
    /\ UNCHANGED <<dirVars, watchVars, op, loc>>

NextScan == ScanOnce

SpecScan == InitScan /\ [][NextScan]_vars

\* --------------------------------------------- LiveDir: listing, properties
ScanDone == pc[1] = "done" /\ "scan_mode" \in DOMAIN loc[1]

\* The position of the first format of `formats` with extension `ext`.
FormatRank(formats, ext) ==
    CHOOSE i \in 1..Len(formats) :
        /\ ContentOf(ext) = formats[i]
        /\ \A j \in 1..(i - 1) : formats[j] # formats[i]

\* C31: in a Files-mode scan of a directory with a.json and a.toml, both
\* formats registered, the value stored for the key a is that of the file
\* of the format registered first, whatever the order of the listing.
EarlierFormatWins ==
    (/\ ScanDone /\ loc[1].scan_mode.tag = "Files" /\ ret[1].tag = "Ok"
     /\ {File(<<"a", "json">>), File(<<"a", "toml">>)} \subseteq loc[1].entries
     /\ {"Json", "Toml"} \subseteq
            {loc[1].formats[i] : i \in 1..Len(loc[1].formats)}) =>
        LET formats == loc[1].formats
            first == IF FormatRank(formats, "json") < FormatRank(formats, "toml")
                     THEN "json" ELSE "toml"
        IN  /\ <<"a">> \in DOMAIN inner.map
            /\ inner.map[<<"a">>].value.data = ContentOf(first)

\* C32: in Subdirs mode with config_file "config.json" and Json
\* registered, every subdirectory that yields a key and holds a file named
\* config.json is reported loaded and get(key) returns its value.
SubdirsLoadsNamedFile ==
    (/\ ScanDone /\ ret[1].tag = "Ok"
     /\ loc[1].scan_mode = [tag |-> "Subdirs",
                            config_file |-> <<"config", "json">>]
     /\ loc[1].formats[1] = "Json") =>
        \A e \in loc[1].entries :
            (e.dir /\ <<"config", "json">> \in e.files) =>
                /\ ExtractIdentity(e.name).val \in ret[1].added
                /\ Get(inner.map, ExtractIdentity(e.name).val).some
                /\ Get(inner.map, ExtractIdentity(e.name).val).val.data = "Json"

\* The entries of a directory that yield a key under the scan mode.
KeyProducing(entries, scan_mode) ==
    {e \in entries : /\ ~NameStartsWithDot(e.name)
                     /\ ExtractIdentity(e.name).some
                     /\ (scan_mode.tag = "Files") = ~e.dir}

\* C37: with max_entries = m the scan fails with LimitExceeded iff the
\* directory has more than m key-producing entries, whatever else it
\* holds and whatever the order of the listing.
LimitCountsKeyProducing ==
    (ScanDone /\ loc[1].max_entries.some) =>
        (ret[1].tag = "LimitExceeded" <=>
            Cardinality(KeyProducing(loc[1].entries, loc[1].scan_mode))
                > loc[1].max_entries.val)

\* ----------------------------------------------------- Store: sync_with
\* What the caller's loader returns per key: an error, or a value with
\* the policy it is to be stored under.
SyncLoaders == [Keys -> {"Err"} \cup UnloadPolicy]

\* The first loop with the loader called for every key of fs_keys.
RECURSIVE SyncLoadAll(_, _, _, _)
SyncLoadAll(order, current_keys, loader, acc) ==
    IF order = <<>> THEN acc
    ELSE LET key == Head(order)
             next ==
                IF loader[key] = "Err"
                THEN [acc EXCEPT !.calls = Append(@, key),
                                 !.failed = Append(@, key)]
                ELSE [acc EXCEPT !.calls = Append(@, key),
                        !.st = StoreInsert(@, 1, key, 1, <<1, key>>,
                                           loader[key]),
                        !.added = Append(@, key)]
         IN  SyncLoadAll(Tail(order), current_keys, loader, next)

\* sync_with, the first loop: fs_keys in the order `order`.
RECURSIVE SyncLoad(_, _, _, _)
SyncLoad(order, current_keys, loader, acc) ==
    IF order = <<>> THEN acc
    ELSE LET key == Head(order)
             next ==
                IF key \in current_keys THEN acc
                ELSE IF loader[key] = "Err"
                THEN [acc EXCEPT !.calls = Append(@, key),
                                 !.failed = Append(@, key)]
                ELSE [acc EXCEPT !.calls = Append(@, key),
                        !.st = StoreInsert(@, 1, key, 1, <<1, key>>,
                                           loader[key]),
                        !.added = Append(@, key)]
         IN  SyncLoad(Tail(order), current_keys, loader, next)

\* sync_with, the second loop: current_keys in the order `order`.
RECURSIVE SyncRemove(_, _, _)
SyncRemove(order, fs_keys, acc) ==
    IF order = <<>> THEN acc
    ELSE LET key == Head(order)
             rm == StoreRemove(acc.st, key)
             next ==
                IF key \in fs_keys THEN acc
                ELSE IF rm.res.tag = "Ok"
                THEN [acc EXCEPT !.st = rm.st, !.removed = Append(@, key)]
                ELSE [acc EXCEPT !.st = rm.st, !.retained = Append(@, key)]
         IN  SyncRemove(Tail(order), fs_keys, next)

\* A Store holding, per key, nothing or one entry; no thread has called.
InitSync ==
    /\ \E c \in SetupChoices : StoreIs(Setup(c, NumKeys))
    /\ ThreadsUnused
    /\ DirsUnused
    /\ WatchUnused

\* Store::sync_with(fs_keys, loader), with no other writer during the call.
SyncWith(fs_keys, loader) ==
    /\ pc[1] = "idle"
    /\ LET current_keys == DOMAIN inner.map
       IN  \E o1 \in Orders(fs_keys), o2 \in Orders(current_keys) :
            LET start == [st |-> TheStore, calls |-> <<>>, added |-> <<>>,
                          failed |-> <<>>, removed |-> <<>>,
                          retained |-> <<>>]
                done == SyncRemove(o2, fs_keys,
                            SyncLoad(o1, current_keys, loader, start))
            IN  /\ StoreBecomes(done.st)
                /\ ret' = [ret EXCEPT ![1] =
                        [calls |-> done.calls, added |-> done.added,
                         failed |-> done.failed, removed |-> done.removed,
                         retained |-> done.retained]]
    /\ op' = [op EXCEPT ![1] = [kind |-> "sync_with", fs_keys |-> fs_keys,
                                loader |-> loader]]
    /\ loc' = [loc EXCEPT ![1].started = Len(hist)]
    /\ pc' = [pc EXCEPT ![1] = "done"]
    /\ UNCHANGED <<dirVars, watchVars>>

NextSync == \E fs_keys \in SUBSET Keys, loader \in SyncLoaders :
                SyncWith(fs_keys, loader)

SpecSync == InitSync /\ [][NextSync]_vars

\* The elements of a list, and a list without repetition.
Range(s) == {s[i] : i \in 1..Len(s)}
NoRepeat(s) == Cardinality(Range(s)) = Len(s)

\* C34: sync_with calls the loader exactly once for each key of fs_keys
\* absent from the Store at entry and never for a stored key, whose entry
\* stays as it was; with no other writer the keys at return are the prior
\* keys in fs_keys, the keys loaded and the prior Persistent keys outside
\* fs_keys; each key acted on is in exactly one of added, failed, removed,
\* retained.
SyncWithContract ==
    (pc[1] = "done" /\ op[1].kind = "sync_with") =>
        LET prior == hist[loc[1].started].map
            fs_keys == op[1].fs_keys
            loader == op[1].loader
            r == ret[1]
            new == fs_keys \ DOMAIN prior
            gone == DOMAIN prior \ fs_keys
        IN  /\ Range(r.calls) = new /\ NoRepeat(r.calls)
            /\ \A k \in fs_keys \cap DOMAIN prior :
                    k \in DOMAIN inner.map /\ inner.map[k] = prior[k]
            /\ DOMAIN inner.map =
                    (DOMAIN prior \cap fs_keys)
                    \cup {k \in new : loader[k] # "Err"}
                    \cup {k \in gone : prior[k].meta.policy = Persistent}
            /\ NoRepeat(r.added \o r.failed \o r.removed \o r.retained)
            /\ Range(r.added) = {k \in new : loader[k] # "Err"}
            /\ Range(r.failed) = {k \in new : loader[k] = "Err"}
            /\ Range(r.removed) =
                    {k \in gone : prior[k].meta.policy = Removable}
            /\ Range(r.retained) =
                    {k \in gone : prior[k].meta.policy = Persistent}

\* A sync that kept a stored key of fs_keys without calling the loader
\* for it and added another key.
SyncKeptAndAdded ==
    /\ pc[1] = "done" /\ op[1].kind = "sync_with"
    /\ op[1].fs_keys \cap DOMAIN hist[loc[1].started].map # {}
    /\ Len(ret[1].calls) = 1
    /\ ret[1].added # <<>>

====
